---- MODULE Spec2Model ----
(***************************************************************************)
(* Verification model of commit-overflow-website: the cache-aside layer    *)
(* (lib/redis), the Discord resolver (lib/discord), the stats and commits  *)
(* endpoints (pages/api) and the helpers they use.                         *)
(***************************************************************************)
EXTENDS Integers, Sequences, FiniteSets, TLC

(* ----------------------------- bounds --------------------------------- *)
\* cached() calls that may overlap.
MaxCalls == 2
\* Seconds the clock may advance.
MaxTime == 2
\* Largest ttlSeconds a caller passes.
MaxTTL == 2
\* Number of successive row-store contents a fetcher may observe.
MaxVersion == 2
\* Feed items one response enriches.
MaxItems == 2
\* Commit rows in the row store of the aggregation model.
MaxRows == 3
\* Users with statistics in the leaderboard model.
MaxUsers == 12
\* Commit rows in the row store of the feed model, and how many of them may be
\* private, explicitly private or unapproved.
MaxFeedRows == 11
MaxHidden == 1
\* Commit rows in the row store of the pagination model, and the largest page
\* and limit a request asks for.
MaxPageRows == 6
MaxPage == 4
MaxLimit == 2
\* Characters in one search parameter.
MaxParamLen == 2
\* Days of the event window of the histogram model, and its commit rows.
EventDays == 2
MaxHistRows == 2

VARIABLES
    redis,      \* the Upstash store: key -> [val, exp]
    now,        \* the clock, in seconds
    ttlOf,      \* the ttlSeconds the callers of cached() pass for each key
    source,     \* version of the row-store contents a fetcher reads
    call,       \* the cached() invocations in flight
    lastWrite,  \* history: the last completed cacheSet of each key
    res,        \* the resolver lookup in flight
    req,        \* the HTTP request an endpoint is serving
    comp,       \* the fetcher (computeStats, fetchPaginatedCommits) it runs
    commits,    \* row store: the commits table, in insertion order
    profiles,   \* row store: commit_overflow_profiles, by user_id
    userStats,  \* the per-user statistics the leaderboards are built from
    url,        \* the search parameters of a request to the commits endpoint
    run         \* the computation under study and its result

vars == <<redis, now, ttlOf, source, call, lastWrite, res, req, comp,
          commits, profiles, userStats, url, run>>

\* The variables an action of one part leaves alone.
dataVars == <<commits, profiles, userStats, url, run>>
serviceVars == <<redis, now, ttlOf, source, call, lastWrite, res, req, comp>>
nonCache == <<res, req, comp, dataVars>>
nonResolver == <<req, comp, dataVars>>

\* smartTruncate: the longest input text, in words, and the largest word
\* budget it is called with.
MaxTextWords == 5
MaxBudget == 2

\* rehypeDiscord: the longest text node, in pieces (a run of plain text or one
\* Discord token).
MaxPieces == 3

\* markdownToHtml: the longest markdown text, in pieces (plain text, a link
\* in link syntax, or a bare URL).
MaxLinks == 2

\* Progress: how many days before the event start and after its last day the
\* clock is taken.
MaxDaysOut == 2

\* Streaks: the most commits of one user, and the last instant of the clock.
MaxStamps == 3
MaxInstant == 11

\* smartTruncate on long texts: the longest text, in words, and how many of
\* its words may differ from the word the text is filled with.
MaxLongWords == 12
MaxMarked == 2

(* ----------------------------- cache store ---------------------------- *)
\* JavaScript null, as redis.get answers for a missing or expired key.
Null == <<>>
\* ttlSeconds === undefined
NoTTL == -1
\* An entry stored without EX never expires.
NoExp == -1

\* The keys of the two endpoints (the commits page shown is page 1, limit 10).
EndpointKey == [stats |-> "stats:response", commits |-> "commits:page:1:limit:10"]
Endpoints == DOMAIN EndpointKey
CachedKeys == {EndpointKey[e] : e \in Endpoints}
\* The key the overlapping cached() calls contend for.
DogpileKeys == {"stats:response"}
ResolverKey ==
    [user |-> "discord:user:1", channel |-> "discord:channel:1",
     message |-> "discord:message:1:1", roles |-> "discord:roles:guild",
     threads |-> "discord:threads:forum"]
ResolverKinds == DOMAIN ResolverKey
Keys == CachedKeys \cup {ResolverKey[k] : k \in ResolverKinds}

Calls == 1..MaxCalls
TTLs == (1..MaxTTL) \cup {NoTTL}

NoEntry == [val |-> Null, exp |-> NoExp]

\* Whether the store still holds entry e at time t (Redis EX semantics).
Live(e, t) == e.val # Null /\ (e.exp = NoExp \/ t < e.exp)

\* Mutant of cacheGet: the expiry of the entry is ignored.
cacheGet_IgnoreExpiry(key) == redis[key].val

\* cacheGet: redis.get(key), null when the key is missing or expired.
cacheGet(key) == IF Live(redis[key], now) THEN redis[key].val ELSE Null

\* Mutant of cacheSet: the ttl is dropped, the entry never expires.
cacheSet_DropTTL(key, value, ttlSeconds) ==
    [redis EXCEPT ![key] = [val |-> value, exp |-> NoExp]]

\* cacheSet: redis.set(key, value, {ex: ttlSeconds}) or redis.set(key, value).
cacheSet(key, value, ttlSeconds) ==
    IF ttlSeconds # NoTTL
    THEN [redis EXCEPT ![key] = [val |-> value, exp |-> now + ttlSeconds]]
    ELSE [redis EXCEPT ![key] = [val |-> value, exp |-> NoExp]]

\* by: the cached() call that wrote, 0 for none and for the resolver.
NoWrite == [at |-> 0, ttl |-> NoTTL, val |-> Null, by |-> 0]

\* The last completed write for key k has not expired at time t.
WriteLive(k, t) ==
    /\ lastWrite[k].val # Null
    /\ (lastWrite[k].ttl = NoTTL \/ t < lastWrite[k].at + lastWrite[k].ttl)

\* One second passes.
Tick ==
    /\ now < MaxTime
    /\ now' = now + 1
    /\ UNCHANGED <<redis, ttlOf, source, call, lastWrite>> /\ UNCHANGED nonCache

(* ----------------------------- cached() ------------------------------- *)
IdleCall ==
    [pc |-> "idle", key |-> "stats:response", ttl |-> NoTTL, existing |-> Null,
     value |-> Null, result |-> Null, nCompute |-> 0, nSet |-> 0,
     liveAtStart |-> FALSE, seenAtGet |-> Null]

\* What the fetcher computes from the row store as it stands.
Compute == <<"stats", source>>

\* A caller invokes cached(key, fetcher, ttlSeconds): the cache read is issued.
CachedStart(c, k, ttl) ==
    /\ call[c].pc = "idle"
    /\ call' = [call EXCEPT ![c] = [IdleCall EXCEPT !.pc = "get", !.key = k, !.ttl = ttl,
                                        !.liveAtStart = WriteLive(k, now)]]
    /\ UNCHANGED <<redis, now, ttlOf, source, lastWrite>> /\ UNCHANGED nonCache

\* const existing = await cacheGet(key); if (existing !== null) return existing;
CachedGet(c) ==
    /\ call[c].pc = "get"
    /\ LET existing == cacheGet(call[c].key)
           seen == [call[c] EXCEPT
                       !.existing = existing,
                       !.seenAtGet = IF WriteLive(call[c].key, now)
                                     THEN lastWrite[call[c].key].val ELSE Null]
       IN  call' = [call EXCEPT ![c] =
                IF existing # Null
                THEN [seen EXCEPT !.pc = "returned", !.result = existing]
                ELSE [seen EXCEPT !.pc = "fetch"]]
    /\ UNCHANGED <<redis, now, ttlOf, source, lastWrite>> /\ UNCHANGED nonCache

\* const value = await fetcher(); the fetcher reads the row store, and may throw.
CachedFetch(c) ==
    /\ call[c].pc = "fetch"
    /\ \/ call' = [call EXCEPT ![c].value = Compute, ![c].pc = "set",
                               ![c].nCompute = @ + 1]
       \/ call' = [call EXCEPT ![c].pc = "raised", ![c].nCompute = @ + 1]
    /\ UNCHANGED <<redis, now, ttlOf, source, lastWrite>> /\ UNCHANGED nonCache

\* await cacheSet(key, value, ttlSeconds); return value;
CachedSet(c) ==
    /\ call[c].pc = "set"
    /\ redis' = cacheSet(call[c].key, call[c].value, call[c].ttl)
    /\ lastWrite' = [lastWrite EXCEPT ![call[c].key] =
                        [at |-> now, ttl |-> call[c].ttl, val |-> call[c].value, by |-> c]]
    /\ call' = [call EXCEPT ![c].pc = "returned", ![c].result = call[c].value,
                            ![c].nSet = @ + 1]
    /\ UNCHANGED <<now, ttlOf, source>> /\ UNCHANGED nonCache

\* The caller has its answer (or its exception); the slot serves a later call.
CachedDone(c) ==
    /\ call[c].pc \in {"returned", "raised"}
    /\ call' = [call EXCEPT ![c] = IdleCall]
    /\ UNCHANGED <<redis, now, ttlOf, source, lastWrite>> /\ UNCHANGED nonCache

\* The row store changes (a commit is approved): later computes see new data.
StoreChange ==
    /\ source < MaxVersion
    /\ source' = source + 1
    /\ UNCHANGED <<redis, now, ttlOf, call, lastWrite>> /\ UNCHANGED nonCache

(* ----------------------------- Discord resolver ----------------------- *)
\* TTL constants of lib/redis, in seconds.
TTL_DISCORD_USER == 86400
TTL_DISCORD_MESSAGE == 43200
TTL_DISCORD_CHANNEL == 86400
TTL_DISCORD_ROLE == 86400
TTL_FORUM_THREADS == 3600

ResolverTTL ==
    [user |-> TTL_DISCORD_USER, channel |-> TTL_DISCORD_CHANNEL,
     message |-> TTL_DISCORD_MESSAGE, roles |-> TTL_DISCORD_ROLE,
     threads |-> TTL_FORUM_THREADS]

\* The lookups: the five cached ones, and getRole, which goes through getGuildRoles.
Lookups == ResolverKinds \cup {"role"}
ListLookups == {"roles", "threads"}
\* The cached lookup a lookup runs.
KindOf(l) == IF l = "role" THEN "roles" ELSE l

\* The role getRole is asked for.
RoleId == 1

\* The result a lookup gives for "unknown": null, or [] for the list lookups.
Absent(l) == IF l \in ListLookups THEN <<l, {}>> ELSE Null

\* How a fetch can end: a 2xx response, a non-2xx response, a network error
\* (fetch rejects), or the AbortSignal.timeout firing (fetch rejects).
Outcomes == {"ok", "nonok", "neterr", "timeout"}
Rejects(reply) == reply.o \in {"neterr", "timeout"}

\* Threads of /threads/active are <<id, parent is the forum>>; archived ones are ids.
ActiveBodies == {{}, {<<1, TRUE>>}, {<<1, TRUE>>, <<2, FALSE>>}}
ArchivedBodies == {{}, {1}, {1, 3}}
RoleBodies == {{}, {1}, {2}}

\* The messages /channels/{id}/messages/{id} may answer with: a plain one, and a
\* forward (message_reference.type 1) whose content sits in its first snapshot.
NoSnapshot == [content |-> <<>>, attachments |-> <<>>, present |-> FALSE]
MessageBodies ==
    {[content |-> <<"fix", " ", "bug">>, attachments |-> <<"a.png">>, refType |-> 0,
      snapshot |-> NoSnapshot],
     [content |-> <<>>, attachments |-> <<>>, refType |-> 1,
      snapshot |-> [content |-> <<"done.">>, attachments |-> <<"b.mp4">>,
                    present |-> TRUE]]}

Bodies(what) ==
    CASE what = "roles" -> RoleBodies
      [] what = "active" -> ActiveBodies
      [] what = "archived" -> ArchivedBodies
      [] what = "message" -> MessageBodies
      [] OTHER -> {1}

Replies(what) ==
    {[o |-> "ok", body |-> b] : b \in Bodies(what)}
        \cup {[o |-> x, body |-> {}] : x \in Outcomes \ {"ok"}}

NoReply == [o |-> "none", body |-> {}]

IdleRes == [pc |-> "idle"]

\* Mutant of OnReject: the rejection is not caught.
OnReject_Rethrow(l) == [pc |-> "raised", result |-> Null]

\* catch { return null; } / catch { return []; }
OnReject(l) == [pc |-> "returned", result |-> Absent(l)]

\* if (!response.ok) return null; / return [];
OnNotOk(l) == [pc |-> "returned", result |-> Absent(l)]

\* getForumThreads: the active threads of the forum, then the archived ones, by id.
UniqueThreads(activeRes, archivedRes) ==
    (IF activeRes.o = "ok" THEN {t[1] : t \in {x \in activeRes.body : x[2]}} ELSE {})
        \cup (IF archivedRes.o = "ok" THEN archivedRes.body ELSE {})

\* getRole: roles.find((r) => r.id === roleId) || null
getRole(roles, roleId) == IF roleId \in roles[2] THEN <<"role", roleId>> ELSE Null

\* What the caller of lookup l gets when the cached lookup returns value v.
Returned(l, v) == IF l = "role" THEN getRole(v, RoleId) ELSE v

\* A lookup is called: its cache read is issued.
ResolveStart(l) ==
    /\ res.pc = "idle"
    /\ res' = [pc |-> "get", lookup |-> l, r1 |-> NoReply, r2 |-> NoReply,
               value |-> Null, result |-> Null, nFetch |-> 0, nSet |-> 0]
    /\ UNCHANGED <<redis, now, ttlOf, source, call, lastWrite>> /\ UNCHANGED nonResolver

\* const cached = await cacheGet(cacheKey); if (cached) return cached;
\* The read is outside the try block: a store failure propagates.
ResolveGet ==
    /\ res.pc = "get"
    /\ \/ LET cachedValue == cacheGet(ResolverKey[KindOf(res.lookup)])
          IN  res' = IF cachedValue # Null
                     THEN [res EXCEPT !.pc = "returned",
                                      !.result = Returned(res.lookup, cachedValue)]
                     ELSE [res EXCEPT !.pc = "fetch"]
       \/ res' = [res EXCEPT !.pc = "raised"]
    /\ UNCHANGED <<redis, now, ttlOf, source, call, lastWrite>> /\ UNCHANGED nonResolver

\* The single request of getDiscordUser, getDiscordChannel, getDiscordMessage
\* and getGuildRoles is answered.
ResolveFetch(reply) ==
    /\ res.pc = "fetch"
    /\ KindOf(res.lookup) # "threads"
    /\ LET l == res.lookup
           end == IF Rejects(reply) THEN OnReject(KindOf(l)) ELSE OnNotOk(KindOf(l))
       IN  res' = IF reply.o = "ok"
                  THEN [res EXCEPT !.pc = "set", !.r1 = reply, !.nFetch = @ + 1,
                                   !.value = <<KindOf(l), reply.body>>]
                  ELSE [res EXCEPT !.pc = end.pc, !.result = Returned(l, end.result),
                                   !.r1 = reply, !.nFetch = @ + 1]
    /\ UNCHANGED <<redis, now, ttlOf, source, call, lastWrite>> /\ UNCHANGED nonResolver

\* The two requests of getForumThreads are answered (Promise.all).
ResolveFetchThreads(activeRes, archivedRes) ==
    /\ res.pc = "fetch"
    /\ res.lookup = "threads"
    /\ LET end == OnReject("threads")
       IN  res' = IF Rejects(activeRes) \/ Rejects(archivedRes)
                  THEN [res EXCEPT !.pc = end.pc, !.result = end.result,
                                   !.r1 = activeRes, !.r2 = archivedRes, !.nFetch = @ + 2]
                  ELSE [res EXCEPT !.pc = "set", !.r1 = activeRes, !.r2 = archivedRes,
                                   !.nFetch = @ + 2,
                                   !.value = <<"threads", UniqueThreads(activeRes, archivedRes)>>]
    /\ UNCHANGED <<redis, now, ttlOf, source, call, lastWrite>> /\ UNCHANGED nonResolver

\* await cacheSet(cacheKey, value, TTL.X); return value;
\* The write is inside the try block: a store failure is caught.
ResolveSet ==
    /\ res.pc = "set"
    /\ LET k == ResolverKey[KindOf(res.lookup)]
           end == OnReject(KindOf(res.lookup))
       IN  \/ /\ redis' = cacheSet(k, res.value, ResolverTTL[KindOf(res.lookup)])
              /\ lastWrite' = [lastWrite EXCEPT ![k] =
                                  [at |-> now, ttl |-> ResolverTTL[KindOf(res.lookup)],
                                   val |-> res.value, by |-> 0]]
              /\ res' = [res EXCEPT !.pc = "returned", !.nSet = @ + 1,
                                    !.result = Returned(res.lookup, res.value)]
           \/ /\ res' = [res EXCEPT !.pc = end.pc,
                                    !.result = Returned(res.lookup, end.result)]
              /\ UNCHANGED <<redis, lastWrite>>
    /\ UNCHANGED <<now, ttlOf, source, call>> /\ UNCHANGED nonResolver

\* The caller has its answer; a later lookup may follow.
ResolveDone ==
    /\ res.pc \in {"returned", "raised"}
    /\ res' = IdleRes
    /\ UNCHANGED <<redis, now, ttlOf, source, call, lastWrite>> /\ UNCHANGED nonResolver

(* ----------------------------- content helpers ------------------------ *)
AWKWARD_END_WORDS ==
    {"the", "a", "an", "and", "or", "but", "in", "on", "at", "to", "for", "of", "with",
     "by", "from", "as", "is", "was", "are", "were", "been", "be", "have", "has", "had",
     "do", "does", "did", "will", "would", "could", "should", "may", "might", "must",
     "shall", "can", "need", "dare", "ought", "used", "this", "that", "these", "those",
     "i", "you", "he", "she", "it", "we", "they", "my", "your", "his", "her", "its",
     "our", "their", "what", "which", "who", "whom", "whose", "where", "when", "why",
     "how", "if", "then", "so", "than", "such", "both", "each", "few", "more", "most",
     "other", "some", "any", "no", "not", "only", "own", "same", "just", "also", "very",
     "even", "still"}

\* A text is a sequence of tokens: words, and the whitespace runs between them.
Whitespace == {" ", "  ", "\n"}

\* The words of the model's texts: whether /[.!?]["')]?$/ matches the word, and
\* the word lower-cased with everything but a-z removed.
WordInfo ==
    "fix" :> [ends |-> FALSE, norm |-> "fix"] @@
    "bug" :> [ends |-> FALSE, norm |-> "bug"] @@
    "The" :> [ends |-> FALSE, norm |-> "the"] @@
    "and," :> [ends |-> FALSE, norm |-> "and"] @@
    "done." :> [ends |-> TRUE, norm |-> "done"] @@
    "why?\"" :> [ends |-> TRUE, norm |-> "why"] @@
    "(ok!)" :> [ends |-> TRUE, norm |-> "ok"] @@
    "v1.2" :> [ends |-> FALSE, norm |-> "v"] @@
    "42" :> [ends |-> FALSE, norm |-> ""]

EndsSentence(w) == WordInfo[w].ends
Normalize(w) == WordInfo[w].norm

\* text.split(/\s+/).filter((w) => w.length > 0)
WordsOf(text) == SelectSeq(text, LAMBDA t : t \notin Whitespace)

\* Mutant of ScanSentence: the first sentence end of the window is taken.
RECURSIVE ScanSentence_FirstFound(_, _, _, _, _)
ScanSentence_FirstFound(words, i, windowEnd, maxWords, bestEnd) ==
    IF i >= windowEnd THEN bestEnd
    ELSE IF EndsSentence(words[i + 1]) THEN i
         ELSE ScanSentence_FirstFound(words, i + 1, windowEnd, maxWords, bestEnd)

\* The first loop of smartTruncate, from 0-based index i with bestEnd so far.
RECURSIVE ScanSentence(_, _, _, _, _)
ScanSentence(words, i, windowEnd, maxWords, bestEnd) ==
    IF i >= windowEnd THEN bestEnd
    ELSE IF EndsSentence(words[i + 1])
         THEN IF i >= maxWords - 5 THEN i
              ELSE ScanSentence(words, i + 1, windowEnd, maxWords, i)
         ELSE ScanSentence(words, i + 1, windowEnd, maxWords, bestEnd)

\* Mutant of ScanBack: the walk back goes down to the first word of the text.
RECURSIVE ScanBack_WholeText(_, _, _)
ScanBack_WholeText(words, i, windowStart) ==
    IF i <= 0 THEN -1
    ELSE IF Normalize(words[i]) \notin AWKWARD_END_WORDS THEN i - 1
         ELSE ScanBack_WholeText(words, i - 1, windowStart)

\* The second loop of smartTruncate, from i down to windowStart + 1.
RECURSIVE ScanBack(_, _, _)
ScanBack(words, i, windowStart) ==
    IF i <= windowStart THEN -1
    ELSE IF Normalize(words[i]) \notin AWKWARD_END_WORDS THEN i - 1
         ELSE ScanBack(words, i - 1, windowStart)

\* words.join(" ")
RECURSIVE Join(_)
Join(words) ==
    IF Len(words) <= 1 THEN words ELSE <<Head(words), " ">> \o Join(Tail(words))

Max(a, b) == IF a >= b THEN a ELSE b
Min(a, b) == IF a <= b THEN a ELSE b

\* Mutant of smartTruncate: a text within the budget is returned with its
\* words joined again.
smartTruncate_Rejoined(text, maxWords) ==
    LET words == WordsOf(text)
    IN  IF Len(words) <= maxWords THEN Join(words)
        ELSE Join(SubSeq(words, 1, Min(Len(words), maxWords))) \o <<"...">>

smartTruncate(text, maxWords) ==
    LET words == WordsOf(text)
        windowStart == Max(0, maxWords - 10)
        windowEnd == Min(Len(words), maxWords + 5)
        first == ScanSentence(words, windowStart, windowEnd, maxWords, -1)
        second == IF first = -1 THEN ScanBack(words, maxWords, windowStart) ELSE first
        bestEnd == IF second = -1 THEN maxWords - 1 ELSE second
    IN  IF Len(words) <= maxWords THEN text
        ELSE Join(SubSeq(words, 1, bestEnd + 1)) \o <<"...">>

\* The word budget the endpoints truncate to.
FeedMaxWords == 50

\* markdownToHtml, for plain prose: nothing for a text without words, else the
\* text in a paragraph.
markdownToHtml(markdown) ==
    IF WordsOf(markdown) = <<>> THEN <<>> ELSE <<"<p>">> \o markdown \o <<"</p>">>

(* ----------------------------- endpoints ------------------------------ *)
\* Cache TTL of the stats response and of a commits page, in seconds.
STATS_CACHE_TTL == 15
CommitsCacheTTL == 15
EndpointTTL == [stats |-> STATS_CACHE_TTL, commits |-> CommitsCacheTTL]

\* The bulk queries each fetcher issues together (Promise.all).
QueriesOf ==
    [stats |-> {"commits", "profiles", "users", "discord"},
     commits |-> {"page", "count", "profiles", "users"}]
QueryNames == QueriesOf.stats \cup QueriesOf.commits
\* getCommitOverflowStats asks the resolver, the others ask the row store.
RowStoreQueries == QueryNames \ {"discord"}

\* The fields of the two payloads, and the query results each is derived from.
PayloadFields ==
    [stats |-> {"event", "stats", "commitsByDay", "leaderboards", "recentCommits",
                "lastUpdated"},
     commits |-> {"commits", "pagination"}]
FieldNeeds ==
    [event |-> {}, lastUpdated |-> {},
     stats |-> {"commits", "discord"},
     commitsByDay |-> {"commits", "profiles"},
     leaderboards |-> {"commits", "profiles", "users"},
     recentCommits |-> {"commits", "profiles", "users"},
     commits |-> {"page", "profiles", "users"},
     pagination |-> {"page", "count"}]

ErrorMessage == [stats |-> "Failed to fetch stats", commits |-> "Failed to fetch commits"]

\* getDiscordMessage as the feed sees it: how the lookup ends for the reply its
\* request got; no request at all (NoReply) when the profile has no thread.
MessageLookup(reply) ==
    IF reply.o = "ok" THEN [pc |-> "returned", result |-> <<"message", reply.body>>]
    ELSE IF reply = NoReply THEN [pc |-> "returned", result |-> Null]
    ELSE IF Rejects(reply) THEN OnReject("message")
    ELSE OnNotOk("message")

MessageReplies == Replies("message") \cup {NoReply}

\* Mutant of FeedItem: a commit whose message is unavailable gets no item.
FeedItem_DropUnavailable(commitId, message) ==
    IF message = Null THEN [messageId |-> 0, messageHtml |-> <<>>, attachments |-> <<>>]
    ELSE [messageId |-> commitId, messageHtml |-> markdownToHtml(message[2].content),
          attachments |-> message[2].attachments]

\* The item of one feed commit, given what getDiscordMessage returned.
FeedItem(commitId, message) ==
    LET isForwarded == message # Null /\ message[2].refType = 1
        forwarded == isForwarded /\ message[2].snapshot.present
        rawMessageText ==
            IF forwarded /\ message[2].snapshot.content # <<>>
            THEN message[2].snapshot.content
            ELSE IF message # Null THEN message[2].content ELSE <<>>
        rawAttachments ==
            IF forwarded THEN message[2].snapshot.attachments
            ELSE IF message # Null THEN message[2].attachments ELSE <<>>
    IN  [messageId |-> commitId,
         messageHtml |-> markdownToHtml(smartTruncate(rawMessageText, FeedMaxWords)),
         attachments |-> rawAttachments]

PendingItem == [st |-> "pending", reply |-> NoReply,
                out |-> [messageId |-> 0, messageHtml |-> <<>>, attachments |-> <<>>]]

IdleReq == [pc |-> "idle", endpoint |-> "stats", status |-> 0, body |-> <<>>]
IdleComp ==
    [phase |-> "none", q |-> [n \in QueryNames |-> "idle"],
     nIssued |-> [n \in QueryNames |-> 0], feed |-> <<>>, items |-> <<>>, version |-> 0]

\* The cached() call that serves the request.
Serving == 1

\* A GET arrives: cached(key, fetcher, ttl) is called.
GetStart(e) ==
    /\ req.pc = "idle"
    /\ call[Serving].pc = "idle"
    /\ req' = [IdleReq EXCEPT !.pc = "running", !.endpoint = e]
    /\ comp' = IdleComp
    /\ call' = [call EXCEPT ![Serving] =
                   [IdleCall EXCEPT !.pc = "get", !.key = EndpointKey[e],
                                    !.ttl = EndpointTTL[e],
                                    !.liveAtStart = WriteLive(EndpointKey[e], now)]]
    /\ UNCHANGED <<redis, now, ttlOf, source, lastWrite, res>> /\ UNCHANGED dataVars

\* The fetcher starts: Promise.all([...]) issues every bulk query.
ComputeStart ==
    /\ req.pc = "running"
    /\ call[Serving].pc = "fetch"
    /\ comp.phase = "none"
    /\ comp' = [comp EXCEPT
                   !.phase = "queries",
                   !.q = [n \in QueryNames |->
                            IF n \in QueriesOf[req.endpoint] THEN "pending" ELSE "idle"],
                   !.nIssued = [n \in QueryNames |->
                            IF n \in QueriesOf[req.endpoint] THEN @[n] + 1 ELSE @[n]]]
    /\ UNCHANGED <<redis, now, ttlOf, source, call, lastWrite, res, req>> /\ UNCHANGED dataVars

\* Mutant of QueryFailed: the failed query is sent again.
QueryFailed_Retry(n) == [comp EXCEPT !.q[n] = "pending", !.nIssued[n] = @ + 1]

\* Mutant of QueryFailed: the failure is taken for an empty result set.
QueryFailed_Swallowed(n) == [comp EXCEPT !.q[n] = "failed"]

\* queryD1 throws (fetch rejected, !response.ok, !data.success): Promise.all
\* rejects with the first failure, and the fetcher with it.
QueryFailed(n) ==
    [comp EXCEPT !.q[n] = "failed",
                 !.phase = IF comp.phase = "queries" THEN "failed" ELSE @]

\* A bulk query is answered with its rows.
QueryOk(n) ==
    /\ comp.q[n] = "pending"
    /\ comp' = [comp EXCEPT !.q[n] = "ok",
                            !.version = IF n \in {"commits", "page"} THEN source ELSE @]
    /\ UNCHANGED <<redis, now, ttlOf, source, call, lastWrite, res, req>> /\ UNCHANGED dataVars

\* A bulk query fails.
QueryFail(n) ==
    /\ comp.q[n] = "pending"
    /\ comp' = QueryFailed(n)
    /\ call' = IF comp.phase = "queries" /\ comp'.phase = "failed"
               THEN [call EXCEPT ![Serving].pc = "raised", ![Serving].nCompute = @ + 1]
               ELSE call
    /\ UNCHANGED <<redis, now, ttlOf, source, lastWrite, res, req>> /\ UNCHANGED dataVars

\* The fields the fetcher can fill from the results it holds.
BuiltFields(e, q) ==
    {f \in PayloadFields[e] : \A n \in FieldNeeds[f] : q[n] = "ok"}

\* What the fetcher returns.
Payload(e, c) ==
    <<e, [fields |-> BuiltFields(e, c.q),
          recent |-> [i \in 1..Len(c.items) |-> c.items[i].out],
          version |-> c.version]>>

\* Every query has been answered: the derived computation runs, and the
\* enrichment of each of the n feed commits is started.
Derive(n) ==
    /\ comp.phase = "queries"
    /\ \A x \in QueriesOf[req.endpoint] : comp.q[x] \notin {"pending", "idle"}
    /\ LET c == [comp EXCEPT !.feed = [i \in 1..n |-> i],
                             !.items = [i \in 1..n |-> PendingItem]]
       IN  IF n = 0
           THEN /\ comp' = [c EXCEPT !.phase = "done"]
                /\ call' = [call EXCEPT ![Serving].pc = "set",
                                        ![Serving].nCompute = @ + 1,
                                        ![Serving].value = Payload(req.endpoint, c)]
           ELSE /\ comp' = [c EXCEPT !.phase = "items"]
                /\ call' = call
    /\ UNCHANGED <<redis, now, ttlOf, source, lastWrite, res, req>> /\ UNCHANGED dataVars

\* The enrichment of feed commit i completes; with the last one the fetcher
\* returns.  A lookup that raised would reject the Promise.all of the feed.
ItemDone(i, reply) ==
    /\ comp.phase = "items"
    /\ i \in 1..Len(comp.items)
    /\ comp.items[i].st = "pending"
    /\ LET end == MessageLookup(reply)
           out == FeedItem(comp.feed[i], end.result)
           c == [comp EXCEPT !.items[i] = [st |-> "done", reply |-> reply, out |-> out]]
       IN  IF end.pc = "raised"
           THEN /\ comp' = [comp EXCEPT !.phase = "failed",
                                        !.items[i] = [@ EXCEPT !.st = "raised",
                                                               !.reply = reply]]
                /\ call' = [call EXCEPT ![Serving].pc = "raised",
                                        ![Serving].nCompute = @ + 1]
           ELSE IF \A j \in 1..Len(c.items) : c.items[j].st = "done"
           THEN /\ comp' = [c EXCEPT !.phase = "done"]
                /\ call' = [call EXCEPT ![Serving].pc = "set",
                                        ![Serving].nCompute = @ + 1,
                                        ![Serving].value = Payload(req.endpoint, c)]
           ELSE /\ comp' = c
                /\ call' = call
    /\ UNCHANGED <<redis, now, ttlOf, source, lastWrite, res, req>> /\ UNCHANGED dataVars

\* The handler answers: the payload with 200, or {error} with 500 from its catch.
Respond ==
    /\ req.pc = "running"
    /\ call[Serving].pc \in {"returned", "raised"}
    /\ req' = IF call[Serving].pc = "returned"
              THEN [req EXCEPT !.pc = "responded", !.status = 200,
                               !.body = call[Serving].result]
              ELSE [req EXCEPT !.pc = "responded", !.status = 500,
                               !.body = <<"error", ErrorMessage[req.endpoint]>>]
    /\ UNCHANGED <<redis, now, ttlOf, source, call, lastWrite, res, comp>> /\ UNCHANGED dataVars

\* The response is sent and every query of the request has been answered.
RequestDone ==
    /\ req.pc = "responded"
    /\ \A n \in QueryNames : comp.q[n] # "pending"
    /\ req' = IdleReq
    /\ comp' = IdleComp
    /\ call' = [call EXCEPT ![Serving] = IdleCall]
    /\ UNCHANGED <<redis, now, ttlOf, source, lastWrite, res>> /\ UNCHANGED dataVars

(* ----------------------------- row store ------------------------------ *)
\* user_id values.
Users == {1, 2}
\* The row of a user who has no profile.
NoRow == [user_id |-> 0, is_private |-> 0]
ProfileRow(u, isPrivate) == [user_id |-> u, is_private |-> isPrivate]
\* A row of commits; approved stands for approved_at IS NOT NULL, and the
\* message id is the one of the message posted at that instant.
CommitRow(u, at, isPrivate, isExplicit, approved) ==
    [user_id |-> u, committed_at |-> at, message_id |-> at,
     is_private |-> isPrivate, is_explicitly_private |-> isExplicit,
     approved |-> approved]

\* ORDER BY committed_at DESC, as an insertion sort.
RECURSIVE InsertByTime(_, _)
InsertByTime(row, sorted) ==
    IF sorted = <<>> THEN <<row>>
    ELSE IF Head(sorted).committed_at >= row.committed_at
         THEN <<Head(sorted)>> \o InsertByTime(row, Tail(sorted))
         ELSE <<row>> \o sorted
RECURSIVE OrderByCommittedAtDesc(_)
OrderByCommittedAtDesc(rows) ==
    IF rows = <<>> THEN <<>>
    ELSE InsertByTime(Head(rows), OrderByCommittedAtDesc(Tail(rows)))

\* SELECT ... FROM commits WHERE approved_at IS NOT NULL ORDER BY committed_at DESC
SelectAllCommits(table) ==
    LET Approved(c) == c.approved = 1
    IN  OrderByCommittedAtDesc(SelectSeq(table, Approved))
\* SELECT user_id, ..., is_private FROM commit_overflow_profiles
SelectAllProfiles(table) == {table[u] : u \in {v \in DOMAIN table : table[v] # NoRow}}

\* A commit is posted: its row is appended with the next instant.
InsertCommit(u, isPrivate, isExplicit, approved) ==
    /\ Len(commits) < MaxRows
    /\ commits' = Append(commits, CommitRow(u, Len(commits) + 1, isPrivate, isExplicit, approved))

\* A user creates their profile or changes its privacy flag.
SetProfile(u, isPrivate) ==
    /\ profiles[u] # ProfileRow(u, isPrivate)
    /\ profiles' = [profiles EXCEPT ![u] = ProfileRow(u, isPrivate)]

(* ----------------------------- lib/dates ------------------------------ *)
\* Instants of one calendar day; every user is in the default timezone here.
InstantsPerDay == 2
getCommitDay(instant, timezone) == (instant + timezone) \div InstantsPerDay
DEFAULT_TIMEZONE == 0

\* Length of the run of consecutive active days that ends at day d.
RECURSIVE RunEndingAt(_, _)
RunEndingAt(days, d) == IF d \in days THEN 1 + RunEndingAt(days, d - 1) ELSE 0

SetMax(S) == CHOOSE x \in S : \A y \in S : y <= x

\* Mutant of calculateStreaks: the current streak is the last run, however
\* long ago it ended.
calculateStreaks_NoRecency(timestamps, timezone, today) ==
    LET days == {getCommitDay(timestamps[i], timezone) : i \in DOMAIN timestamps}
        last == SetMax(days)
    IN  IF days = {} THEN [currentStreak |-> 0, longestStreak |-> 0, totalDays |-> 0]
        ELSE [currentStreak |-> RunEndingAt(days, last),
              longestStreak |-> SetMax({RunEndingAt(days, d) : d \in days}),
              totalDays |-> Cardinality(days)]

\* Mutant of calculateStreaks: the longest streak is taken when a run breaks,
\* so the run that ends on the last active day is not counted.
calculateStreaks_LastRunNotCounted(timestamps, timezone, today) ==
    LET days == {getCommitDay(timestamps[i], timezone) : i \in DOMAIN timestamps}
        last == SetMax(days)
        broken == {RunEndingAt(days, d) : d \in {x \in days : x # last /\ x + 1 \notin days}}
    IN  IF days = {} THEN [currentStreak |-> 0, longestStreak |-> 0, totalDays |-> 0]
        ELSE [currentStreak |-> IF last \in {today, today - 1}
                                THEN RunEndingAt(days, last) ELSE 0,
              longestStreak |-> IF broken = {} THEN 0 ELSE SetMax(broken),
              totalDays |-> Cardinality(days)]

\* calculateStreaks(timestamps, timezone), evaluated on the day today.
calculateStreaks(timestamps, timezone, today) ==
    LET days == {getCommitDay(timestamps[i], timezone) : i \in DOMAIN timestamps}
        last == SetMax(days)
    IN  IF days = {} THEN [currentStreak |-> 0, longestStreak |-> 0, totalDays |-> 0]
        ELSE [currentStreak |-> IF last \in {today, today - 1}
                                THEN RunEndingAt(days, last) ELSE 0,
              longestStreak |-> SetMax({RunEndingAt(days, d) : d \in days}),
              totalDays |-> Cardinality(days)]

(* ----------------------------- computeStats: leaderboards ------------- *)
\* Mutant of publicUserIds: every user who has a profile.
publicUserIds_Everyone(allProfiles) == {p.user_id : p \in allProfiles}

publicUserIds(allProfiles) ==
    {p.user_id : p \in {q \in allProfiles : q.is_private = 0}}

leaderboardCommits(allCommits, allProfiles) ==
    LET Public(c) == c.user_id \in publicUserIds(allProfiles)
    IN  SelectSeq(allCommits, Public)

\* The keys of the userCommits map, in the order the loop first sets them.
RECURSIVE userCommitsKeys(_)
userCommitsKeys(rows) ==
    IF rows = <<>> THEN <<>>
    ELSE LET u == Head(rows).user_id
             Other(c) == c.user_id # u
         IN  <<u>> \o userCommitsKeys(SelectSeq(Tail(rows), Other))

\* userCommits.get(u): the user's committed_at values, in row order.
userCommitsOf(rows, u) ==
    LET Mine(c) == c.user_id = u
        mine == SelectSeq(rows, Mine)
    IN  [i \in 1..Len(mine) |-> mine[i].committed_at]

\* The userStats array computeStats pushes, one entry per key of userCommits.
BuildUserStats(rows, today) ==
    LET keys == userCommitsKeys(rows)
    IN  [i \in 1..Len(keys) |->
            LET timestamps == userCommitsOf(rows, keys[i])
                streaks == calculateStreaks(timestamps, DEFAULT_TIMEZONE, today)
            IN  [odId |-> keys[i],
                 totalCommits |-> Len(timestamps),
                 totalDays |-> streaks.totalDays,
                 currentStreak |-> streaks.currentStreak,
                 longestStreak |-> streaks.longestStreak]]

\* Entries one leaderboard keeps: slice(0, 10).
LeaderboardSize == 10
Metrics == [commits |-> "totalCommits", days |-> "totalDays", streak |-> "currentStreak"]
BoardNames == DOMAIN Metrics

\* Mutant of toSorted: the array as it is.
toSorted_Unsorted(stats, metric) == stats

\* Array.prototype.toSorted((a, b) => b[metric] - a[metric]): a stable sort,
\* descending by the metric.
RECURSIVE InsertByMetric(_, _, _)
InsertByMetric(user, sorted, metric) ==
    IF sorted = <<>> THEN <<user>>
    ELSE IF Head(sorted)[metric] >= user[metric]
         THEN <<Head(sorted)>> \o InsertByMetric(user, Tail(sorted), metric)
         ELSE <<user>> \o sorted
RECURSIVE SortPrefix(_, _, _)
SortPrefix(stats, n, metric) ==
    IF n = 0 THEN <<>>
    ELSE InsertByMetric(stats[n], SortPrefix(stats, n - 1, metric), metric)
toSorted(stats, metric) == SortPrefix(stats, Len(stats), metric)

toLeaderboardRow(user, index) ==
    [rank |-> index + 1, odId |-> user.odId, totalCommits |-> user.totalCommits,
     totalDays |-> user.totalDays, currentStreak |-> user.currentStreak]

BuildLeaderboards(stats) ==
    [b \in BoardNames |->
        LET sorted == toSorted(stats, Metrics[b])
            top == SubSeq(sorted, 1, Min(LeaderboardSize, Len(sorted)))
        IN  [i \in 1..Len(top) |-> toLeaderboardRow(top[i], i - 1)]]

(* ----------------------------- leaderboards of given statistics ------- *)
\* The statistics one user may have: each board orders them differently.
StatOptions ==
    { [totalCommits |-> 3, totalDays |-> 1, currentStreak |-> 0, longestStreak |-> 1],
      [totalCommits |-> 2, totalDays |-> 2, currentStreak |-> 1, longestStreak |-> 2] }

IdleBoards == [phase |-> "idle", leaderboards |-> [b \in BoardNames |-> <<>>]]

\* The loop over userCommits pushes the statistics of one more user.
PushUser(o) ==
    /\ run.phase = "idle"
    /\ Len(userStats) < MaxUsers
    /\ userStats' = Append(userStats,
                           [odId |-> Len(userStats) + 1,
                            totalCommits |-> o.totalCommits, totalDays |-> o.totalDays,
                            currentStreak |-> o.currentStreak,
                            longestStreak |-> o.longestStreak])
    /\ UNCHANGED run

\* The three leaderboards are built from the array.
BoardsBuild ==
    /\ run.phase = "idle"
    /\ run' = [phase |-> "done", leaderboards |-> BuildLeaderboards(userStats)]
    /\ UNCHANGED userStats

BoardsReturn ==
    /\ run.phase = "done"
    /\ run' = IdleBoards
    /\ UNCHANGED userStats

(* ----------------------------- computeStats: recent feed -------------- *)
\* Mutant of feedCommits: the explicit flag is not looked at.
feedCommits_IgnoreExplicit(allCommits) ==
    LET Shown(c) == c.is_private = 0
    IN  SelectSeq(allCommits, Shown)

feedCommits(allCommits) ==
    LET Shown(c) == c.is_private = 0 /\ c.is_explicitly_private = 0
    IN  SelectSeq(allCommits, Shown)

\* Commits the recent feed shows: feedCommits.slice(0, 10).
FeedSize == 10
RecentSlice(rows) == SubSeq(rows, 1, Min(FeedSize, Len(rows)))

\* What the callback of one feed commit resolves to.
RecentItem(commit) ==
    [odId |-> commit.user_id, messageId |-> commit.message_id,
     committedAt |-> commit.committed_at]
Unsettled == [odId |-> 0, messageId |-> 0, committedAt |-> 0]

\* Mutant of Settle: the values are kept in the order the promises settle.
Settle_InCompletionOrder(values, i, item) ==
    LET free == CHOOSE k \in 1..Len(values) :
                    values[k] = Unsettled /\ \A j \in 1..(k - 1) : values[j] # Unsettled
    IN  [values EXCEPT ![free] = item]

\* Promise.all keeps the value of its i-th promise at index i.
Settle(values, i, item) == [values EXCEPT ![i] = item]

IdleFeed == [phase |-> "idle", feed |-> <<>>, pending |-> {},
             values |-> <<>>, reordered |-> FALSE, recentCommits |-> <<>>]

\* The rows a user may post: shown, private, explicitly private, not approved
\* (is_private, is_explicitly_private, approved).
FeedRowKinds == {<<0, 0, 1>>, <<1, 0, 1>>, <<0, 1, 1>>, <<0, 0, 0>>}

Hidden(c) == c.approved = 0 \/ c.is_private = 1 \/ c.is_explicitly_private = 1

\* A commit is posted while no aggregation is reading: a row inserted during
\* the enrichment is not part of what that aggregation read.
FeedInsert(isPrivate, isExplicit, approved) ==
    /\ run.phase = "idle"
    /\ Len(commits) < MaxFeedRows
    /\ LET row == CommitRow(1, Len(commits) + 1, isPrivate, isExplicit, approved)
           IsHidden(c) == Hidden(c)
       IN  /\ Hidden(row) => Len(SelectSeq(commits, IsHidden)) < MaxHidden
           /\ commits' = Append(commits, row)
    /\ UNCHANGED run

\* computeStats reads the commits, filters and slices them and starts one
\* callback per feed commit.
FeedBegin ==
    /\ run.phase = "idle"
    /\ LET allCommits == SelectAllCommits(commits)
           feed == RecentSlice(feedCommits(allCommits))
       IN  run' = [run EXCEPT !.phase = "items",
                              !.feed = feed,
                              !.pending = 1..Len(feed),
                              !.values = [i \in 1..Len(feed) |-> Unsettled]]
    /\ UNCHANGED commits

\* The callback of feed commit i resolves, in whatever order the lookups end.
FeedItemDone(i) ==
    /\ run.phase = "items"
    /\ i \in run.pending
    /\ run' = [run EXCEPT !.pending = @ \ {i},
                          !.values = Settle(@, i, RecentItem(run.feed[i])),
                          !.reordered = @ \/ \E j \in run.pending : j < i]
    /\ UNCHANGED commits

\* Promise.all resolves when nothing is pending.
FeedReturn ==
    /\ run.phase = "items"
    /\ run.pending = {}
    /\ run' = [run EXCEPT !.phase = "done", !.recentCommits = run.values]
    /\ UNCHANGED commits

FeedReset ==
    /\ run.phase = "done"
    /\ run' = IdleFeed
    /\ UNCHANGED commits

(* ----------------------------- fetchPaginatedCommits ------------------ *)
\* Mutant of PageOffset: pages counted from zero.
PageOffset_FromZero(page, limit) == page * limit

PageOffset(page, limit) == (page - 1) * limit

\* SELECT ... FROM commits WHERE approved_at IS NOT NULL AND is_private = 0 AND
\* is_explicitly_private = 0 ORDER BY committed_at DESC LIMIT ? OFFSET ?
SelectFeedPage(table, limit, offset) ==
    LET Shown(c) == c.approved = 1 /\ c.is_private = 0 /\ c.is_explicitly_private = 0
        rows == OrderByCommittedAtDesc(SelectSeq(table, Shown))
    IN  SubSeq(rows, offset + 1, Min(Len(rows), offset + limit))
\* SELECT COUNT(*) as count FROM commits WHERE (the same condition)
SelectFeedCount(table) ==
    LET Shown(c) == c.approved = 1 /\ c.is_private = 0 /\ c.is_explicitly_private = 0
    IN  Len(SelectSeq(table, Shown))

IdlePage == [phase |-> "idle", page |-> 0, limit |-> 0, got |-> {}, feedCommits |-> <<>>,
             total |-> 0, changed |-> FALSE, commits |-> <<>>, hasMore |-> FALSE]

\* A commit is posted; the request in flight, if any, no longer runs against
\* an unchanged row store.
PageInsert(isPrivate, isExplicit, approved) ==
    /\ Len(commits) < MaxPageRows
    /\ LET row == CommitRow(1, Len(commits) + 1, isPrivate, isExplicit, approved)
           IsHidden(c) == Hidden(c)
       IN  /\ Hidden(row) => Len(SelectSeq(commits, IsHidden)) < MaxHidden
           /\ commits' = Append(commits, row)
    /\ run' = [run EXCEPT !.changed = (run.phase # "idle")]

\* fetchPaginatedCommits(page, limit) starts: its queries are sent together.
PageBegin(page, limit) ==
    /\ run.phase = "idle"
    /\ run' = [run EXCEPT !.phase = "queries", !.page = page, !.limit = limit]
    /\ UNCHANGED commits

\* The row store answers the page query, asked for one row more than the limit.
PageQueryRows ==
    /\ run.phase = "queries" /\ "rows" \notin run.got
    /\ run' = [run EXCEPT !.got = @ \cup {"rows"},
                          !.feedCommits = SelectFeedPage(commits, run.limit + 1,
                                                         PageOffset(run.page, run.limit))]
    /\ UNCHANGED commits

\* The row store answers the count query.
PageQueryCount ==
    /\ run.phase = "queries" /\ "count" \notin run.got
    /\ run' = [run EXCEPT !.got = @ \cup {"count"}, !.total = SelectFeedCount(commits)]
    /\ UNCHANGED commits

\* With both answers the page is cut to the limit and its items are built.
PageBuild ==
    /\ run.phase = "queries" /\ run.got = {"rows", "count"}
    /\ LET commitsToProcess == SubSeq(run.feedCommits, 1, Min(run.limit, Len(run.feedCommits)))
       IN  run' = [run EXCEPT !.phase = "done",
                              !.hasMore = Len(run.feedCommits) > run.limit,
                              !.commits = [i \in 1..Len(commitsToProcess) |->
                                              RecentItem(commitsToProcess[i])]]
    /\ UNCHANGED commits

PageReturn ==
    /\ run.phase = "done"
    /\ run' = IdlePage
    /\ UNCHANGED commits

(* ----------------------------- GET /api/commits: parameters ----------- *)
DEFAULT_PAGE_SIZE == 10
MAX_PAGE_SIZE == 50

\* The characters a search parameter is made of.
Digits == {"0", "1", "5", "9"}
DigitValue == [c \in Digits |-> CASE c = "0" -> 0 [] c = "1" -> 1 [] c = "5" -> 5 [] c = "9" -> 9]
Alphabet == Digits \cup {"-", " ", "a"}
RECURSIVE StringsUpTo(_)
StringsUpTo(n) ==
    IF n = 0 THEN {<<>>}
    ELSE LET shorter == StringsUpTo(n - 1)
         IN  shorter \cup {Append(t, c) : t \in shorter, c \in Alphabet}
\* url.searchParams.get(name): null, or the string.
NoParam == [present |-> FALSE, chars |-> <<>>]
Params == {NoParam} \cup {[present |-> TRUE, chars |-> t] : t \in StringsUpTo(MaxParamLen)}

\* param || fallback: null and the empty string are falsy.
OrString(param, fallback) ==
    IF param.present /\ param.chars # <<>> THEN param.chars ELSE fallback

RECURSIVE TrimStart(_)
TrimStart(chars) ==
    IF chars # <<>> /\ Head(chars) = " " THEN TrimStart(Tail(chars)) ELSE chars
RECURSIVE LeadingDigits(_)
LeadingDigits(chars) ==
    IF chars # <<>> /\ Head(chars) \in Digits THEN 1 + LeadingDigits(Tail(chars)) ELSE 0
RECURSIVE DecimalValue(_)
DecimalValue(digits) ==
    IF digits = <<>> THEN 0
    ELSE 10 * DecimalValue(SubSeq(digits, 1, Len(digits) - 1)) + DigitValue[digits[Len(digits)]]

NaN == [nan |-> TRUE, n |-> 0]
\* parseInt(string, 10): leading white space, an optional sign, then the
\* longest run of digits; NaN when there is no digit there.
parseInt(chars) ==
    LET trimmed == TrimStart(chars)
        negative == trimmed # <<>> /\ Head(trimmed) = "-"
        unsigned == IF negative THEN Tail(trimmed) ELSE trimmed
        k == LeadingDigits(unsigned)
        value == DecimalValue(SubSeq(unsigned, 1, k))
    IN  IF k = 0 THEN NaN
        ELSE [nan |-> FALSE, n |-> IF negative THEN 0 - value ELSE value]

\* Mutant of OrNumber: only NaN is replaced.
OrNumber_OnlyNaN(x, fallback) == IF x.nan THEN fallback ELSE x.n

\* x || fallback on numbers: NaN and 0 are falsy.
OrNumber(x, fallback) == IF x.nan \/ x.n = 0 THEN fallback ELSE x.n

\* String(DEFAULT_PAGE_SIZE) and "1".
DefaultLimitString == <<"1", "0">>
DefaultPageString == <<"1">>

EffectivePage(pageParam) ==
    Max(1, OrNumber(parseInt(OrString(pageParam, DefaultPageString)), 1))
EffectiveLimit(limitParam) ==
    Min(MAX_PAGE_SIZE,
        Max(1, OrNumber(parseInt(OrString(limitParam, DefaultLimitString)), DEFAULT_PAGE_SIZE)))

IdleParams == [phase |-> "idle", page |-> 0, limit |-> 0, cacheKey |-> <<>>, status |-> 0]
NoUrl == [page |-> NoParam, limit |-> NoParam]

\* A request arrives with its search parameters.
ParamsReceive ==
    /\ run.phase = "idle"
    /\ \E pageParam \in Params, limitParam \in Params :
          url' = [page |-> pageParam, limit |-> limitParam]
    /\ run' = [run EXCEPT !.phase = "received"]

\* The handler computes page, limit and the cache key and calls cached().
ParamsParse ==
    /\ run.phase = "received"
    /\ LET page == EffectivePage(url.page)
           limit == EffectiveLimit(url.limit)
       IN  run' = [run EXCEPT !.phase = "fetching", !.page = page, !.limit = limit,
                              !.cacheKey = <<"commits:page:", page, ":limit:", limit>>]
    /\ UNCHANGED url

\* cached() returns or raises, and the handler answers 200 or 500.
ParamsRespond(ok) ==
    /\ run.phase = "fetching"
    /\ run' = [run EXCEPT !.phase = "responded", !.status = IF ok THEN 200 ELSE 500]
    /\ UNCHANGED url

ParamsDone ==
    /\ run.phase = "responded"
    /\ run' = IdleParams
    /\ url' = NoUrl

(* ----------------------------- computeStats: commitsByDay ------------- *)
\* The event window, as day keys, and getDateRange(start, end): every day key
\* from start to end, both included.
EVENT_START == 1
EVENT_END == EVENT_START + EventDays - 1
getDateRange(start, end) == [i \in 1..(end - start + 1) |-> start + i - 1]

\* A profile row with its timezone, as an offset in instants.
ZonedProfile(u, isPrivate, timezone) ==
    [user_id |-> u, is_private |-> isPrivate, timezone |-> timezone]
Timezones == {DEFAULT_TIMEZONE, 1}

\* Mutant of timezoneOf: every commit is bucketed in the default timezone.
timezoneOf_Default(allProfiles, u) == DEFAULT_TIMEZONE

\* timezoneMap.get(user_id) || DEFAULT_TIMEZONE
timezoneOf(allProfiles, u) ==
    IF \E p \in allProfiles : p.user_id = u
    THEN (CHOOSE p \in allProfiles : p.user_id = u).timezone
    ELSE DEFAULT_TIMEZONE

\* allDates.forEach((date) => { commitsByDay[date] = 0 })
SeedDays(allDates) == [d \in {allDates[i] : i \in DOMAIN allDates} |-> 0]

\* Mutant of CountDay: a day that is not a key becomes one.
CountDay_AnyDay(byDay, day) ==
    IF day \in DOMAIN byDay THEN [byDay EXCEPT ![day] = @ + 1]
    ELSE [d \in DOMAIN byDay \cup {day} |-> IF d = day THEN 1 ELSE byDay[d]]

\* if (commitsByDay[commitDay] !== undefined) commitsByDay[commitDay]++
CountDay(byDay, day) ==
    IF day \in DOMAIN byDay THEN [byDay EXCEPT ![day] = @ + 1] ELSE byDay

\* The loop over allCommits.
RECURSIVE CountCommits(_, _, _)
CountCommits(byDay, rows, allProfiles) ==
    IF rows = <<>> THEN byDay
    ELSE LET commit == Head(rows)
             timezone == timezoneOf(allProfiles, commit.user_id)
             commitDay == getCommitDay(commit.committed_at, timezone)
         IN  CountCommits(CountDay(byDay, commitDay), Tail(rows), allProfiles)

BuildCommitsByDay(allCommits, allProfiles) ==
    CountCommits(SeedDays(getDateRange(EVENT_START, EVENT_END)), allCommits, allProfiles)

\* Instants a commit of the model is posted at: the last one before the event
\* starts, the first one of the event, the last one of the event and the first
\* one after it, in the default timezone.
CommitInstants ==
    {InstantsPerDay * EVENT_START - 1, InstantsPerDay * EVENT_START,
     InstantsPerDay * (EVENT_END + 1) - 1, InstantsPerDay * (EVENT_END + 1)}
\* The rows a user may post: public, private, not approved.
HistRowKinds == {<<0, 0, 1>>, <<1, 0, 1>>, <<0, 0, 0>>}

IdleHist == [phase |-> "idle", allCommits |-> <<>>, allProfiles |-> {},
             commitsByDay |-> <<>>, totalCommits |-> 0]

\* A commit is posted while no aggregation is reading.
HistInsert(u, at, isPrivate, isExplicit, approved) ==
    /\ run.phase = "idle"
    /\ Len(commits) < MaxHistRows
    /\ commits' = Append(commits, CommitRow(u, at, isPrivate, isExplicit, approved))
    /\ UNCHANGED <<profiles, run>>

\* A user creates their profile or changes its privacy flag or timezone.
HistSetProfile(u, isPrivate, timezone) ==
    /\ run.phase = "idle"
    /\ profiles[u] # ZonedProfile(u, isPrivate, timezone)
    /\ profiles' = [profiles EXCEPT ![u] = ZonedProfile(u, isPrivate, timezone)]
    /\ UNCHANGED <<commits, run>>

\* computeStats reads the commits and the profiles.
HistBegin ==
    /\ run.phase = "idle"
    /\ run' = [run EXCEPT !.phase = "read",
                          !.allCommits = SelectAllCommits(commits),
                          !.allProfiles = SelectAllProfiles(profiles)]
    /\ UNCHANGED <<commits, profiles>>

\* It builds the histogram and the commit total.
HistBuild ==
    /\ run.phase = "read"
    /\ run' = [run EXCEPT !.phase = "done",
                          !.commitsByDay = BuildCommitsByDay(run.allCommits, run.allProfiles),
                          !.totalCommits = Len(run.allCommits)]
    /\ UNCHANGED <<commits, profiles>>

HistReturn ==
    /\ run.phase = "done"
    /\ run' = IdleHist
    /\ UNCHANGED <<commits, profiles>>

(* ----------------------------- computeStats over the row store -------- *)
IdleStats == [phase |-> "idle", got |-> {}, allCommits |-> <<>>, allProfiles |-> {},
              leaderboards |-> [b \in BoardNames |-> <<>>], totalCommits |-> 0,
              recentCommits |-> <<>>]

\* computeStats starts: its bulk queries are sent together.
StatsBegin ==
    /\ run.phase = "idle"
    /\ run' = [run EXCEPT !.phase = "queries"]

\* The row store answers the commits query.
StatsQueryCommits ==
    /\ run.phase = "queries" /\ "commits" \notin run.got
    /\ run' = [run EXCEPT !.got = @ \cup {"commits"},
                          !.allCommits = SelectAllCommits(commits)]

\* The row store answers the profiles query.
StatsQueryProfiles ==
    /\ run.phase = "queries" /\ "profiles" \notin run.got
    /\ run' = [run EXCEPT !.got = @ \cup {"profiles"},
                          !.allProfiles = SelectAllProfiles(profiles)]

\* Days a computation may run on: none before the day of a commit it read.
Todays(allCommits) ==
    LET first == IF allCommits = <<>> THEN 0
                 ELSE getCommitDay(allCommits[1].committed_at, DEFAULT_TIMEZONE)
    IN  first..(first + 2)

\* With both answers computeStats builds the statistics, the leaderboards and
\* the recent feed.
StatsBuild(today) ==
    /\ run.phase = "queries" /\ run.got = {"commits", "profiles"}
    /\ today \in Todays(run.allCommits)
    /\ LET rows == leaderboardCommits(run.allCommits, run.allProfiles)
           feed == RecentSlice(feedCommits(run.allCommits))
       IN  run' = [run EXCEPT !.phase = "done",
                              !.leaderboards = BuildLeaderboards(BuildUserStats(rows, today)),
                              !.totalCommits = Len(run.allCommits),
                              !.recentCommits = [i \in 1..Len(feed) |-> RecentItem(feed[i])]]

StatsReturn ==
    /\ run.phase = "done"
    /\ run' = IdleStats

(* ----------------------------- smartTruncate on given texts ----------- *)
\* The words the input texts are written with: a plain word, a word of
\* AWKWARD_END_WORDS and a word that ends a sentence.
TextWords == {"fix", "The", "done."}

IdleTrunc == [phase |-> "text", text |-> <<>>, wide |-> FALSE, maxWords |-> 0, out |-> <<>>]

IsWord(t) == t \notin Whitespace

\* The text grows by a word; two words are always separated by whitespace.
TextWord(w) ==
    /\ run.phase = "text"
    /\ Len(WordsOf(run.text)) < MaxTextWords
    /\ IF run.text = <<>> THEN TRUE ELSE ~IsWord(run.text[Len(run.text)])
    /\ run' = [run EXCEPT !.text = Append(@, w)]
    /\ UNCHANGED <<commits, profiles>>

\* The text grows by a whitespace run, before its first word, between two
\* words or after its last; one run of a text may be other than one space.
TextSpace(ws) ==
    /\ run.phase = "text"
    /\ IF run.text = <<>> THEN TRUE ELSE IsWord(run.text[Len(run.text)])
    /\ ws = " " \/ ~run.wide
    /\ run' = [run EXCEPT !.text = Append(@, ws), !.wide = @ \/ ws # " "]
    /\ UNCHANGED <<commits, profiles>>

TruncApply(maxWords) ==
    /\ run.phase = "text"
    /\ run' = [run EXCEPT !.phase = "done", !.maxWords = maxWords,
                          !.out = smartTruncate(run.text, maxWords)]
    /\ UNCHANGED <<commits, profiles>>

TruncReset ==
    /\ run.phase = "done"
    /\ run' = IdleTrunc
    /\ UNCHANGED <<commits, profiles>>

(* ----------------------------- rehypeDiscord --------------------------- *)
\* A text node's value is a sequence of pieces: runs of plain text and the
\* tokens the three patterns of rehypeDiscord match. For each piece: the
\* pattern that matches it ("none" for plain text), and its capture groups.
PieceInfo ==
    "see " :> [type |-> "none", prefix |-> "", id |-> 0] @@
    "<@1>" :> [type |-> "entity", prefix |-> "@", id |-> 1] @@
    "<@!1>" :> [type |-> "entity", prefix |-> "@!", id |-> 1] @@
    "<#2>" :> [type |-> "entity", prefix |-> "#", id |-> 2] @@
    "<@&3>" :> [type |-> "entity", prefix |-> "@&", id |-> 3] @@
    "<:ok:4>" :> [type |-> "emoji", prefix |-> "", id |-> 4] @@
    "<t:5>" :> [type |-> "timestamp", prefix |-> "", id |-> 5]
Pieces == DOMAIN PieceInfo

ENTITY_PREFIX_MAP == "@" :> "user" @@ "@!" :> "user" @@ "#" :> "channel" @@ "@&" :> "role"

\* origText.matchAll(pattern): the 0-based indices of the matches, ascending.
RECURSIVE matchAll(_, _, _)
matchAll(origText, type, from) ==
    IF from > Len(origText) THEN <<>>
    ELSE (IF PieceInfo[origText[from]].type = type
          THEN <<[index |-> from - 1, type |-> type]>> ELSE <<>>)
             \o matchAll(origText, type, from + 1)

\* allMatches.sort((a, b) => a.match.index - b.match.index)
RECURSIVE InsertByIndex(_, _)
InsertByIndex(sorted, x) ==
    IF sorted = <<>> THEN <<x>>
    ELSE IF Head(sorted).index <= x.index THEN <<Head(sorted)>> \o InsertByIndex(Tail(sorted), x)
         ELSE <<x>> \o sorted
RECURSIVE SortByIndex(_)
SortByIndex(matches) ==
    IF matches = <<>> THEN <<>>
    ELSE InsertByIndex(SortByIndex(SubSeq(matches, 1, Len(matches) - 1)), matches[Len(matches)])

\* The mention of a match (match[0] has the length of one piece).
MentionOf(origText, match) ==
    LET info == PieceInfo[origText[match.index + 1]]
    IN  IF match.type = "entity"
        THEN [type |-> ENTITY_PREFIX_MAP[info.prefix], id |-> info.id]
        ELSE [type |-> match.type, id |-> info.id]

TextNode(value) == [type |-> "text", value |-> value]
\* const element = { type: "element" } as Element
NoTag == ""
EmptyElement == [type |-> "element", tagName |-> NoTag, className |-> <<>>,
                 style |-> <<>>, children |-> <<>>]

\* What the lookups of hydrateMention can give: null or a value; global_name
\* and the role colour are optional fields (<<>> for null, 0 for no colour).
MentionResults ==
    [user |-> {Null, [global_name |-> <<"Ada L.">>, username |-> <<"ada">>],
                     [global_name |-> Null, username |-> <<"ada">>]},
     channel |-> {Null, [name |-> <<"general">>]},
     role |-> {Null, [name |-> <<"admin">>, color |-> 0],
                     [name |-> <<"mods">>, color |-> 255]}]
Awaited == DOMAIN MentionResults

\* a ?? b
Coalesce(a, b) == IF a # Null THEN a ELSE b

\* Mutant of hydrateMention: the user name is the username, and a lookup that
\* gave null leaves the element as it was.
hydrateMention_NoFallback(element, mention, found) ==
    IF found = Null THEN element
    ELSE [element EXCEPT !.tagName = "span",
                         !.className = <<"mention", "mention-" \o mention.type>>,
                         !.children = <<TextNode(<<"@", IF mention.type = "user"
                                                        THEN found.username[1]
                                                        ELSE found.name[1]>>)>>]

\* hydrateMention after its lookup gave found (unused for emoji and timestamp).
hydrateMention(element, mention, found) ==
    CASE mention.type = "user" ->
            LET name == Coalesce(IF found = Null THEN Null ELSE found.global_name,
                          Coalesce(IF found = Null THEN Null ELSE found.username, <<"user">>))
            IN  [element EXCEPT !.tagName = "span",
                                !.className = <<"mention", "mention-user">>,
                                !.children = <<TextNode(<<"@", name[1]>>)>>]
      [] mention.type = "channel" ->
            LET name == Coalesce(IF found = Null THEN Null ELSE found.name, <<"channel">>)
            IN  [element EXCEPT !.tagName = "span",
                                !.className = <<"mention", "mention-channel">>,
                                !.children = <<TextNode(<<"#", name[1]>>)>>]
      [] mention.type = "role" ->
            LET name == Coalesce(IF found = Null THEN Null ELSE found.name, <<"role">>)
                color == IF found = Null THEN 0 ELSE found.color
            IN  [element EXCEPT !.tagName = "span",
                                !.className = <<"mention", "mention-role">>,
                                !.style = IF color # 0 THEN <<"color", color>> ELSE <<>>,
                                !.children = <<TextNode(<<"@", name[1]>>)>>]
      [] mention.type = "emoji" ->
            [element EXCEPT !.tagName = "img", !.className = <<"discord-emoji">>]
      [] mention.type = "timestamp" ->
            [element EXCEPT !.tagName = "time",
                            !.children = <<TextNode(<<"date", mention.id>>)>>]

\* The loop over allMatches: the text before each match, then its element; an
\* element whose mention needs no lookup is populated when it is made.
RECURSIVE Components(_, _, _)
Components(origText, matches, lastMatchEnd) ==
    IF matches = <<>>
    THEN IF lastMatchEnd < Len(origText)
         THEN <<TextNode(SubSeq(origText, lastMatchEnd + 1, Len(origText)))>> ELSE <<>>
    ELSE LET match == Head(matches)
             mention == MentionOf(origText, match)
         IN  (IF match.index > lastMatchEnd
              THEN <<TextNode(SubSeq(origText, lastMatchEnd + 1, match.index))>> ELSE <<>>)
                \o <<IF mention.type \in Awaited THEN EmptyElement
                     ELSE hydrateMention(EmptyElement, mention, Null)>>
                \o Components(origText, Tail(matches), match.index + 1)

\* The mentions of the elements of the components, by component index.
RECURSIVE MentionsAt(_, _, _)
MentionsAt(origText, matches, at) ==
    IF matches = <<>> THEN <<>>
    ELSE LET match == Head(matches)
             gap == IF match.index > at THEN 1 ELSE 0
         IN  (IF gap = 1 THEN <<Null>> ELSE <<>>) \o <<MentionOf(origText, match)>>
                \o MentionsAt(origText, Tail(matches), match.index + 1)

allMatches(origText) ==
    SortByIndex(matchAll(origText, "entity", 1) \o matchAll(origText, "emoji", 1)
                    \o matchAll(origText, "timestamp", 1))

IdleMention == [phase |-> "text", origText |-> <<>>, children |-> <<>>,
                mentions |-> <<>>, promises |-> {}, found |-> <<>>]

MentionText(piece) ==
    /\ run.phase = "text"
    /\ Len(run.origText) < MaxPieces
    /\ run' = [run EXCEPT !.origText = Append(@, piece)]
    /\ UNCHANGED <<commits, profiles>>

\* The visitor of rehypeDiscord on the text node: without a match the node is
\* left alone; else it is replaced by the components, and a promise is pending
\* for every mention that needs a lookup.
MentionVisit ==
    /\ run.phase = "text"
    /\ LET matches == allMatches(run.origText)
           components == IF matches = <<>> THEN <<TextNode(run.origText)>>
                         ELSE Components(run.origText, matches, 0)
           mentions == MentionsAt(run.origText, matches, 0)
       IN  run' = [run EXCEPT !.phase = "hydrating", !.children = components,
                      !.mentions = mentions,
                      !.found = [i \in 1..Len(components) |-> Null],
                      !.promises = {i \in 1..Len(mentions) :
                                       IF mentions[i] = Null THEN FALSE
                                       ELSE mentions[i].type \in Awaited}]
    /\ UNCHANGED <<commits, profiles>>

\* The lookup of one pending mention returns, and its element is populated.
MentionHydrate(i, found) ==
    /\ run.phase = "hydrating"
    /\ i \in run.promises
    /\ found \in MentionResults[run.mentions[i].type]
    /\ run' = [run EXCEPT !.children[i] = hydrateMention(@, run.mentions[i], found),
                          !.found[i] = found,
                          !.promises = @ \ {i}]
    /\ UNCHANGED <<commits, profiles>>

\* Mutant of MentionDone: the stage returns without awaiting the promises.
MentionDone_NoBarrier ==
    /\ run.phase = "hydrating"
    /\ run' = [run EXCEPT !.phase = "done"]
    /\ UNCHANGED <<commits, profiles>>

\* await Promise.all(promises)
MentionDone ==
    /\ run.phase = "hydrating"
    /\ run.promises = {}
    /\ run' = [run EXCEPT !.phase = "done"]
    /\ UNCHANGED <<commits, profiles>>

MentionReset ==
    /\ run.phase = "done"
    /\ run' = IdleMention
    /\ UNCHANGED <<commits, profiles>>

(* ----------------------------- markdownProcessor ----------------------- *)
\* A revision is a sequence of characters.
Rep(c, n) == [i \in 1..n |-> c]
HexChars == {"0", "1", "2", "3", "4", "5", "6", "7", "8", "9",
             "a", "b", "c", "d", "e", "f", "A", "B", "C", "D", "E", "F"}
\* The lengths abbreviateRev is written with: /[0-9a-f]{40}/i and slice(0, 7).
SHA_LENGTH == 40
ABBREV_LENGTH == 7

Sha40 == <<"0", "1", "2", "3", "4", "5", "6">> \o Rep("a", SHA_LENGTH - 7)
Sha40Upper == <<"0", "1", "2", "3", "4", "5", "6">> \o Rep("A", SHA_LENGTH - 7)
ShaShort == <<"0", "1", "2", "3", "4", "5", "6", "7">>
Sha41 == Sha40 \o <<"b">>
Branch == <<"m", "a", "i", "n">>
BranchWithSha == <<"r", "e", "l", "-">> \o Sha40

\* rev.match(/[0-9a-f]{40}/i): some 40 consecutive characters are hex digits.
MatchesShaPattern(rev) ==
    \E i \in 1..(Len(rev) - SHA_LENGTH + 1) :
        \A j \in i..(i + SHA_LENGTH - 1) : rev[j] \in HexChars

\* Mutant of abbreviateRev: every revision is cut.
abbreviateRev_Always(rev) == SubSeq(rev, 1, Min(Len(rev), ABBREV_LENGTH))

abbreviateRev(rev) ==
    IF MatchesShaPattern(rev) THEN SubSeq(rev, 1, Min(Len(rev), ABBREV_LENGTH)) ELSE rev

\* URLs, by the shape of their path; tail is what follows /commit/ or /compare/.
CommitUrl(domain, sha) ==
    [shape |-> "commit", domain |-> domain, user |-> "acme", repo |-> "widget", tail |-> sha]
CompareUrl(from, dots, to) ==
    [shape |-> "compare", domain |-> "github.com", user |-> "acme", repo |-> "widget",
     tail |-> from \o dots \o to, from |-> from, dots |-> dots, to |-> to]
PullUrl == [shape |-> "pull", domain |-> "github.com", user |-> "acme", repo |-> "widget",
            num |-> 42]
RepoUrl(domain) == [shape |-> "repo", domain |-> domain, user |-> "acme", repo |-> "widget"]
PageUrl == [shape |-> "page", domain |-> "example.com"]
CustomText == [shape |-> "plain", value |-> "see this"]
\* The href of [text](): the empty string.
NoHref == [shape |-> "empty"]

TwoDots == <<".", ".">>
ThreeDots == <<".", ".", ".">>

Urls ==
    {CommitUrl("github.com", Sha40), CommitUrl("github.com", Sha40Upper),
     CommitUrl("git.example.org", ShaShort), CommitUrl("github.com", Sha41),
     CommitUrl("github.com", Branch),
     CompareUrl(Branch, ThreeDots, Sha40), CompareUrl(Sha40, TwoDots, ShaShort),
     CompareUrl(Sha40, ThreeDots, Branch), CompareUrl(Branch, TwoDots, BranchWithSha),
     PullUrl, RepoUrl("github.com"), RepoUrl("git.example.org"), PageUrl}

\* The pieces of a markdown text: plain text, [text](href), [**text**](href),
\* [**text**text](href), a bare URL.
MarkdownPieces ==
    {[md |-> "text", text |-> CustomText]}
        \cup {[md |-> "link", text |-> CustomText, href |-> u] : u \in {PageUrl, PullUrl}}
        \cup {[md |-> "link", text |-> RepoUrl("github.com"), href |-> RepoUrl("github.com")]}
        \cup {[md |-> "link", text |-> CustomText, href |-> NoHref]}
        \cup {[md |-> "strong", text |-> PullUrl, href |-> PullUrl]}
        \cup {[md |-> "mixed", text |-> PullUrl, href |-> PullUrl]}
        \cup {[md |-> "url", href |-> u] : u \in Urls}

Strong(text) ==
    [type |-> "element", tagName |-> "strong", className |-> <<>>,
     children |-> <<TextNode(text)>>]

\* remarkParse: link syntax becomes a link node; the rest is text.
remarkParse(markdown) ==
    [i \in 1..Len(markdown) |->
        CASE markdown[i].md = "link" ->
                [type |-> "link", url |-> markdown[i].href,
                 children |-> <<TextNode(markdown[i].text)>>]
          [] markdown[i].md = "strong" ->
                [type |-> "link", url |-> markdown[i].href,
                 children |-> <<Strong(markdown[i].text)>>]
          [] markdown[i].md = "mixed" ->
                [type |-> "link", url |-> markdown[i].href,
                 children |-> <<Strong(markdown[i].text), TextNode(markdown[i].text)>>]
          [] markdown[i].md = "url" -> [type |-> "literal", url |-> markdown[i].href]
          [] OTHER -> TextNode(markdown[i].text)]

\* remarkAutolink (gfm autolink literal): a bare URL becomes a link node whose
\* text is the URL.
remarkAutolink(tree) ==
    [i \in 1..Len(tree) |->
        IF tree[i].type = "literal"
        THEN [type |-> "link", url |-> tree[i].url, children |-> <<TextNode(tree[i].url)>>]
        ELSE tree[i]]

NoTarget == ""
Anchor(href, children) ==
    [type |-> "element", tagName |-> "a", href |-> href, className |-> <<>>,
     target |-> NoTarget, rel |-> <<>>, children |-> children]
Span(clazz, text) ==
    [type |-> "element", tagName |-> "span", className |-> <<clazz>>,
     children |-> <<TextNode(text)>>]

\* remarkRehype: a link node becomes an a element.
remarkRehype(tree) ==
    [i \in 1..Len(tree) |->
        IF tree[i].type = "link" THEN Anchor(tree[i].url, tree[i].children) ELSE tree[i]]

IsAnchor(node) == IF node.type = "element" THEN node.tagName = "a" ELSE FALSE

\* rehypeSanitize (default schema): of an a element, href and the children stay.
rehypeSanitize(tree) ==
    [i \in 1..Len(tree) |->
        IF IsAnchor(tree[i]) THEN Anchor(tree[i].href, tree[i].children) ELSE tree[i]]

IsHex(chars) == chars # <<>> /\ \A i \in 1..Len(chars) : chars[i] \in HexChars

\* DIFF_PATTERN on the tail: (?<from>.+)(?<dots>\.\.\.?)(?<to>.+)$ with the
\* greedy from: the longest from that leaves two dots and something after them;
\* the third dot belongs to dots when something is left for to.
DotsAt(tail, k) == k + 2 < Len(tail) /\ tail[k + 1] = "." /\ tail[k + 2] = "."
MatchesDiff(tail) == \E k \in 1..Len(tail) : DotsAt(tail, k)
SplitDiff(tail) ==
    LET k == CHOOSE x \in 1..Len(tail) :
                 DotsAt(tail, x) /\ \A y \in (x + 1)..Len(tail) : ~DotsAt(tail, y)
        three == tail[k + 3] = "." /\ k + 3 < Len(tail)
        n == IF three THEN 3 ELSE 2
    IN  [from |-> SubSeq(tail, 1, k), dots |-> SubSeq(tail, k + 1, k + n),
         to |-> SubSeq(tail, k + n + 1, Len(tail))]

repoName(domain, user, repo) ==
    IF domain = "github.com" THEN <<user, "/", repo>> ELSE <<domain, ":", user, "/", repo>>

\* The badge content of an href, or <<>> for a link that is no Git link.
BadgeContent(href) ==
    CASE href.shape = "commit" /\ (IF href.shape = "commit" THEN IsHex(href.tail) ELSE FALSE) ->
            <<Span("github-repo", repoName(href.domain, href.user, href.repo)),
              Span("github-sha", abbreviateRev(href.tail))>>
      [] href.shape = "compare" /\ (IF href.shape = "compare" THEN MatchesDiff(href.tail) ELSE FALSE) ->
            LET g == SplitDiff(href.tail)
            IN  <<Span("github-repo", repoName(href.domain, href.user, href.repo)),
                  Span("github-sha", abbreviateRev(g.from) \o g.dots \o abbreviateRev(g.to))>>
      [] href.shape = "pull" ->
            <<Span("github-repo", repoName(href.domain, href.user, href.repo)),
              Span("github-num", <<"#", href.num>>)>>
      [] href.shape = "repo" ->
            <<Span("github-repo", repoName(href.domain, href.user, href.repo))>>
      [] OTHER -> <<>>

\* Mutant of rehypeGitLinks: the text of the link is not compared with its href.
rehypeGitLinks_AnyText(tree) ==
    [i \in 1..Len(tree) |->
        IF ~IsAnchor(tree[i]) THEN tree[i]
        ELSE LET link == tree[i]
             IN  IF link.href = NoHref THEN link
                 ELSE IF Len(link.children) # 1 THEN link
                 ELSE IF link.children[1].type # "text" THEN link
                 ELSE IF BadgeContent(link.href) = <<>> THEN link
                 ELSE [link EXCEPT !.className = <<"github-commit">>,
                                   !.children = BadgeContent(link.href)]]

\* rehypeGitLinks: a link whose only child is its href as text becomes a badge.
rehypeGitLinks(tree) ==
    [i \in 1..Len(tree) |->
        IF ~IsAnchor(tree[i]) THEN tree[i]
        ELSE LET link == tree[i]
             IN  IF link.href = NoHref THEN link
                 ELSE IF Len(link.children) # 1 THEN link
                 ELSE IF link.children[1].type # "text" THEN link
                 ELSE IF link.children[1].value # link.href THEN link
                 ELSE IF BadgeContent(link.href) = <<>> THEN link
                 ELSE [link EXCEPT !.className = <<"github-commit">>,
                                   !.children = BadgeContent(link.href)]]

\* Mutant of rehypeLinkAttributes: links rewritten to badges are passed over.
rehypeLinkAttributes_PlainOnly(tree) ==
    [i \in 1..Len(tree) |->
        IF IsAnchor(tree[i]) /\ (IF IsAnchor(tree[i]) THEN tree[i].className = <<>> ELSE FALSE)
        THEN [tree[i] EXCEPT !.target = "_blank",
                             !.rel = <<"nofollow", "noopener", "noreferrer">>]
        ELSE tree[i]]

rehypeLinkAttributes(tree) ==
    [i \in 1..Len(tree) |->
        IF IsAnchor(tree[i])
        THEN [tree[i] EXCEPT !.target = "_blank",
                             !.rel = <<"nofollow", "noopener", "noreferrer">>]
        ELSE tree[i]]

\* rehypeStringify: the tree written out, tag by tag.
RECURSIVE rehypeStringify(_)
rehypeStringify(tree) ==
    IF tree = <<>> THEN <<>>
    ELSE LET node == Head(tree)
         IN  (IF node.type = "text" THEN <<node>>
              ELSE <<[node EXCEPT !.type = "open", !.children = <<>>]>>
                      \o rehypeStringify(node.children)
                      \o <<[type |-> "close", tagName |-> node.tagName]>>)
                \o rehypeStringify(Tail(tree))

\* The stages, in the order of the use() calls. The text nodes of this
\* section hold no Discord token, so rehypeDiscord leaves them alone.
markdownProcessor ==
    <<"remarkParse", "remarkAutolink", "remarkRehype", "rehypeSanitize", "rehypeDiscord",
      "rehypeGitLinks", "rehypeLinkAttributes", "rehypeStringify">>

RunStage(name, tree) ==
    CASE name = "remarkParse" -> remarkParse(tree)
      [] name = "remarkAutolink" -> remarkAutolink(tree)
      [] name = "remarkRehype" -> remarkRehype(tree)
      [] name = "rehypeSanitize" -> rehypeSanitize(tree)
      [] name = "rehypeDiscord" -> tree
      [] name = "rehypeGitLinks" -> rehypeGitLinks(tree)
      [] name = "rehypeLinkAttributes" -> rehypeLinkAttributes(tree)
      [] name = "rehypeStringify" -> rehypeStringify(tree)

IdleLinks == [phase |-> "text", markdown |-> <<>>, tree |-> <<>>, stage |-> 0]

LinksText(piece) ==
    /\ run.phase = "text"
    /\ Len(run.markdown) < MaxLinks
    /\ run' = [run EXCEPT !.markdown = Append(@, piece)]
    /\ UNCHANGED <<commits, profiles>>

\* markdownProcessor.process(markdown)
LinksProcess ==
    /\ run.phase = "text"
    /\ run' = [run EXCEPT !.phase = "stages", !.tree = run.markdown]
    /\ UNCHANGED <<commits, profiles>>

LinksStage ==
    /\ run.phase = "stages"
    /\ run.stage < Len(markdownProcessor)
    /\ run' = [run EXCEPT !.stage = @ + 1,
                          !.tree = RunStage(markdownProcessor[run.stage + 1], run.tree)]
    /\ UNCHANGED <<commits, profiles>>

LinksDone ==
    /\ run.phase = "stages"
    /\ run.stage = Len(markdownProcessor)
    /\ run' = [run EXCEPT !.phase = "done"]
    /\ UNCHANGED <<commits, profiles>>

LinksReset ==
    /\ run.phase = "done"
    /\ run' = IdleLinks
    /\ UNCHANGED <<commits, profiles>>

(* ----------------------------- Progress ------------------------------- *)
totalDays == 20
msPerDay == 1000 * 60 * 60 * 24

\* Mutant of currentDay: the day number is not clamped from below.
currentDay_NoLowerClamp(elapsed) == Min(totalDays, (elapsed \div msPerDay) + 1)

\* Math.max(1, Math.min(totalDays, Math.floor((now - eventStart) / msPerDay) + 1)),
\* elapsed being now.getTime() - eventStart.getTime().
currentDay(elapsed) == Max(1, Min(totalDays, (elapsed \div msPerDay) + 1))

\* Math.max(0, totalDays - currentDay)
daysRemaining(day) == Max(0, totalDays - day)

\* The instants the clock is taken at, in milliseconds since eventStart: the
\* first, the second and the last millisecond of a day.
ClockDays == (0 - MaxDaysOut)..(totalDays + MaxDaysOut - 1)
ClockOffsets == {0, 1, msPerDay - 1}

IdleProgress == [phase |-> "idle", elapsed |-> 0, currentDay |-> 0, daysRemaining |-> 0]

\* const now = new Date()
ProgressNow(d, offset) ==
    /\ run.phase \in {"idle", "rendered"}
    /\ run' = [IdleProgress EXCEPT !.phase = "now", !.elapsed = d * msPerDay + offset]
    /\ UNCHANGED <<commits, profiles>>

ProgressRender ==
    /\ run.phase = "now"
    /\ run' = [run EXCEPT !.phase = "rendered",
                          !.currentDay = currentDay(run.elapsed),
                          !.daysRemaining = daysRemaining(currentDay(run.elapsed))]
    /\ UNCHANGED <<commits, profiles>>

(* ----------------------------- computeStats: one user's statistics ---- *)
\* The entry computeStats pushes for a user with these commit instants.
UserStatsEntry(odId, timestamps, timezone, today) ==
    LET streaks == calculateStreaks(timestamps, timezone, today)
    IN  [odId |-> odId,
         totalCommits |-> Len(timestamps),
         totalDays |-> streaks.totalDays,
         currentStreak |-> streaks.currentStreak,
         longestStreak |-> streaks.longestStreak]

Instants == 0..MaxInstant

IdleStreak == [phase |-> "commits", timestamps |-> <<>>, timezone |-> DEFAULT_TIMEZONE,
               evalAt |-> 0, entry |-> UserStatsEntry(0, <<>>, DEFAULT_TIMEZONE, 0)]

\* A commit of the user is in the list, at any place in time.
StreakCommit(at) ==
    /\ run.phase = "commits"
    /\ Len(run.timestamps) < MaxStamps
    /\ run' = [run EXCEPT !.timestamps = Append(@, at)]
    /\ UNCHANGED <<commits, profiles>>

\* The entry of the user is computed at the instant evalAt, today being the
\* day of that instant in the user's timezone.
StreakEval(timezone, evalAt) ==
    /\ run.phase = "commits"
    /\ run' = [run EXCEPT !.phase = "done", !.timezone = timezone, !.evalAt = evalAt,
                          !.entry = UserStatsEntry(1, run.timestamps, timezone,
                                                   getCommitDay(evalAt, timezone))]
    /\ UNCHANGED <<commits, profiles>>

StreakReset ==
    /\ run.phase = "done"
    /\ run' = IdleStreak
    /\ UNCHANGED <<commits, profiles>>

(* ----------------------------- smartTruncate on long texts ------------ *)
\* The word budgets of the long texts: one below the 5 words the window
\* reaches back, one between 5 and 10, and one above 10.
LongBudgets == {1, 6, 11}

IdleWindow(base) == [phase |-> "text", base |-> base, words |-> <<>>, marked |-> 0,
                     maxWords |-> 0, out |-> <<>>]

\* The text grows by a word, after a single space: the word it is filled with,
\* or one of the few that differ.
WindowWord(w) ==
    /\ run.phase = "text"
    /\ Len(run.words) < MaxLongWords
    /\ w = run.base \/ run.marked < MaxMarked
    /\ run' = [run EXCEPT !.words = Append(@, w),
                          !.marked = IF w = run.base THEN @ ELSE @ + 1]
    /\ UNCHANGED <<commits, profiles>>

WindowApply(maxWords) ==
    /\ run.phase = "text"
    /\ run' = [run EXCEPT !.phase = "done", !.maxWords = maxWords,
                          !.out = smartTruncate(Join(run.words), maxWords)]
    /\ UNCHANGED <<commits, profiles>>

WindowReset(base) ==
    /\ run.phase = "done"
    /\ run' = IdleWindow(base)
    /\ UNCHANGED <<commits, profiles>>

(* ----------------------------- specifications ------------------------- *)
\* The data variables of a specification that does not use them.
InitData ==
    /\ commits = <<>>
    /\ profiles = [u \in Users |-> NoRow]
    /\ userStats = <<>>
    /\ url = <<>>
    /\ run = <<>>

InitCache ==
    /\ redis = [k \in Keys |-> NoEntry]
    /\ now = 0
    /\ ttlOf \in [DogpileKeys -> TTLs]
    /\ source = 1
    /\ call = [c \in Calls |-> IdleCall]
    /\ lastWrite = [k \in Keys |-> NoWrite]
    /\ res = IdleRes
    /\ req = IdleReq
    /\ comp = IdleComp
    /\ InitData

NextCache ==
    \/ \E c \in Calls, k \in DogpileKeys : CachedStart(c, k, ttlOf[k])
    \/ \E c \in Calls : CachedGet(c)
    \/ \E c \in Calls : CachedFetch(c)
    \/ \E c \in Calls : CachedSet(c)
    \/ \E c \in Calls : CachedDone(c)
    \/ Tick
    \/ StoreChange

SpecCache == InitCache /\ [][NextCache]_vars

InitResolver == InitCache

NextResolver ==
    \/ \E l \in Lookups : ResolveStart(l)
    \/ ResolveGet
    \/ \E reply \in Replies(IF res.pc = "fetch" THEN KindOf(res.lookup) ELSE "user") :
          ResolveFetch(reply)
    \/ \E activeRes \in Replies("active"), archivedRes \in Replies("archived") :
          ResolveFetchThreads(activeRes, archivedRes)
    \/ ResolveSet
    \/ ResolveDone

SpecResolver == InitResolver /\ [][NextResolver]_vars


\* The endpoints: one request at a time, through cached().
Init ==
    /\ redis = [k \in Keys |-> NoEntry]
    /\ now = 0
    /\ ttlOf = [k \in DogpileKeys |-> NoTTL]
    /\ source = 1
    /\ call = [c \in Calls |-> IdleCall]
    /\ lastWrite = [k \in Keys |-> NoWrite]
    /\ res = IdleRes
    /\ req = IdleReq
    /\ comp = IdleComp
    /\ InitData

Next ==
    \/ \E e \in Endpoints : GetStart(e)
    \/ CachedGet(Serving)
    \/ ComputeStart
    \/ \E n \in QueryNames : QueryOk(n)
    \/ \E n \in QueryNames : QueryFail(n)
    \/ \E n \in 0..MaxItems : Derive(n)
    \/ \E i \in 1..MaxItems, reply \in MessageReplies : ItemDone(i, reply)
    \/ CachedSet(Serving)
    \/ Respond
    \/ RequestDone

Spec == Init /\ [][Next]_vars

\* computeStats over a row store that users keep writing to.
InitStats ==
    /\ redis = [k \in Keys |-> NoEntry]
    /\ now = 0
    /\ ttlOf = [k \in DogpileKeys |-> NoTTL]
    /\ source = 1
    /\ call = [c \in Calls |-> IdleCall]
    /\ lastWrite = [k \in Keys |-> NoWrite]
    /\ res = IdleRes
    /\ req = IdleReq
    /\ comp = IdleComp
    /\ commits = <<>>
    /\ profiles = [u \in Users |-> NoRow]
    /\ userStats = <<>>
    /\ url = <<>>
    /\ run = IdleStats

NextStats ==
    \/ \E u \in Users, p \in {0, 1} :
          InsertCommit(u, p, 0, 1) /\ UNCHANGED <<profiles, userStats, url, run>> /\ UNCHANGED serviceVars
    \/ \E u \in Users, p \in {0, 1} :
          SetProfile(u, p) /\ UNCHANGED <<commits, userStats, url, run>> /\ UNCHANGED serviceVars
    \/ StatsBegin /\ UNCHANGED <<commits, profiles, userStats, url>> /\ UNCHANGED serviceVars
    \/ StatsQueryCommits /\ UNCHANGED <<commits, profiles, userStats, url>> /\ UNCHANGED serviceVars
    \/ StatsQueryProfiles /\ UNCHANGED <<commits, profiles, userStats, url>> /\ UNCHANGED serviceVars
    \/ \E today \in 0..(MaxRows + 2) :
          StatsBuild(today) /\ UNCHANGED <<commits, profiles, userStats, url>> /\ UNCHANGED serviceVars
    \/ StatsReturn /\ UNCHANGED <<commits, profiles, userStats, url>> /\ UNCHANGED serviceVars

SpecStats == InitStats /\ [][NextStats]_vars

\* The leaderboards of any array of user statistics.
InitBoard ==
    /\ redis = [k \in Keys |-> NoEntry]
    /\ now = 0
    /\ ttlOf = [k \in DogpileKeys |-> NoTTL]
    /\ source = 1
    /\ call = [c \in Calls |-> IdleCall]
    /\ lastWrite = [k \in Keys |-> NoWrite]
    /\ res = IdleRes
    /\ req = IdleReq
    /\ comp = IdleComp
    /\ commits = <<>>
    /\ profiles = [u \in Users |-> NoRow]
    /\ userStats = <<>>
    /\ url = <<>>
    /\ run = IdleBoards

NextBoard ==
    \/ \E o \in StatOptions : PushUser(o) /\ UNCHANGED <<commits, profiles, url>> /\ UNCHANGED serviceVars
    \/ BoardsBuild /\ UNCHANGED <<commits, profiles, url>> /\ UNCHANGED serviceVars
    \/ BoardsReturn /\ UNCHANGED <<commits, profiles, url>> /\ UNCHANGED serviceVars

SpecBoard == InitBoard /\ [][NextBoard]_vars

\* The recent feed of computeStats over a growing commits table.
InitFeed ==
    /\ redis = [k \in Keys |-> NoEntry]
    /\ now = 0
    /\ ttlOf = [k \in DogpileKeys |-> NoTTL]
    /\ source = 1
    /\ call = [c \in Calls |-> IdleCall]
    /\ lastWrite = [k \in Keys |-> NoWrite]
    /\ res = IdleRes
    /\ req = IdleReq
    /\ comp = IdleComp
    /\ commits = <<>>
    /\ profiles = [u \in Users |-> NoRow]
    /\ userStats = <<>>
    /\ url = <<>>
    /\ run = IdleFeed

NextFeed ==
    \/ \E flags \in FeedRowKinds :
          FeedInsert(flags[1], flags[2], flags[3]) /\ UNCHANGED <<profiles, userStats, url>> /\ UNCHANGED serviceVars
    \/ FeedBegin /\ UNCHANGED <<profiles, userStats, url>> /\ UNCHANGED serviceVars
    \/ \E i \in 1..FeedSize :
          FeedItemDone(i) /\ UNCHANGED <<profiles, userStats, url>> /\ UNCHANGED serviceVars
    \/ FeedReturn /\ UNCHANGED <<profiles, userStats, url>> /\ UNCHANGED serviceVars
    \/ FeedReset /\ UNCHANGED <<profiles, userStats, url>> /\ UNCHANGED serviceVars

SpecFeed == InitFeed /\ [][NextFeed]_vars

\* fetchPaginatedCommits over a growing commits table.
InitPage ==
    /\ redis = [k \in Keys |-> NoEntry]
    /\ now = 0
    /\ ttlOf = [k \in DogpileKeys |-> NoTTL]
    /\ source = 1
    /\ call = [c \in Calls |-> IdleCall]
    /\ lastWrite = [k \in Keys |-> NoWrite]
    /\ res = IdleRes
    /\ req = IdleReq
    /\ comp = IdleComp
    /\ commits = <<>>
    /\ profiles = [u \in Users |-> NoRow]
    /\ userStats = <<>>
    /\ url = <<>>
    /\ run = IdlePage

NextPage ==
    \/ \E flags \in FeedRowKinds :
          PageInsert(flags[1], flags[2], flags[3]) /\ UNCHANGED <<profiles, userStats, url>> /\ UNCHANGED serviceVars
    \/ \E page \in 1..MaxPage, limit \in 1..MaxLimit :
          PageBegin(page, limit) /\ UNCHANGED <<profiles, userStats, url>> /\ UNCHANGED serviceVars
    \/ PageQueryRows /\ UNCHANGED <<profiles, userStats, url>> /\ UNCHANGED serviceVars
    \/ PageQueryCount /\ UNCHANGED <<profiles, userStats, url>> /\ UNCHANGED serviceVars
    \/ PageBuild /\ UNCHANGED <<profiles, userStats, url>> /\ UNCHANGED serviceVars
    \/ PageReturn /\ UNCHANGED <<profiles, userStats, url>> /\ UNCHANGED serviceVars

SpecPage == InitPage /\ [][NextPage]_vars

\* The commits endpoint over any search parameters.
InitParams ==
    /\ redis = [k \in Keys |-> NoEntry]
    /\ now = 0
    /\ ttlOf = [k \in DogpileKeys |-> NoTTL]
    /\ source = 1
    /\ call = [c \in Calls |-> IdleCall]
    /\ lastWrite = [k \in Keys |-> NoWrite]
    /\ res = IdleRes
    /\ req = IdleReq
    /\ comp = IdleComp
    /\ commits = <<>>
    /\ profiles = [u \in Users |-> NoRow]
    /\ userStats = <<>>
    /\ url = NoUrl
    /\ run = IdleParams

NextParams ==
    \/ ParamsReceive /\ UNCHANGED <<commits, profiles, userStats>> /\ UNCHANGED serviceVars
    \/ ParamsParse /\ UNCHANGED <<commits, profiles, userStats>> /\ UNCHANGED serviceVars
    \/ \E ok \in BOOLEAN :
          ParamsRespond(ok) /\ UNCHANGED <<commits, profiles, userStats>> /\ UNCHANGED serviceVars
    \/ ParamsDone /\ UNCHANGED <<commits, profiles, userStats>> /\ UNCHANGED serviceVars

SpecParams == InitParams /\ [][NextParams]_vars

\* The histogram of computeStats over commits posted around the event window.
InitHist ==
    /\ redis = [k \in Keys |-> NoEntry]
    /\ now = 0
    /\ ttlOf = [k \in DogpileKeys |-> NoTTL]
    /\ source = 1
    /\ call = [c \in Calls |-> IdleCall]
    /\ lastWrite = [k \in Keys |-> NoWrite]
    /\ res = IdleRes
    /\ req = IdleReq
    /\ comp = IdleComp
    /\ commits = <<>>
    /\ profiles = [u \in Users |-> NoRow]
    /\ userStats = <<>>
    /\ url = <<>>
    /\ run = IdleHist

NextHist ==
    \/ \E u \in Users, at \in CommitInstants, flags \in HistRowKinds :
          HistInsert(u, at, flags[1], flags[2], flags[3]) /\ UNCHANGED <<userStats, url>> /\ UNCHANGED serviceVars
    \/ \E u \in Users, p \in {0, 1}, timezone \in Timezones :
          HistSetProfile(u, p, timezone) /\ UNCHANGED <<userStats, url>> /\ UNCHANGED serviceVars
    \/ HistBegin /\ UNCHANGED <<userStats, url>> /\ UNCHANGED serviceVars
    \/ HistBuild /\ UNCHANGED <<userStats, url>> /\ UNCHANGED serviceVars
    \/ HistReturn /\ UNCHANGED <<userStats, url>> /\ UNCHANGED serviceVars

SpecHist == InitHist /\ [][NextHist]_vars

InitTrunc ==
    /\ redis = [k \in Keys |-> NoEntry]
    /\ now = 0
    /\ ttlOf = [k \in DogpileKeys |-> NoTTL]
    /\ source = 1
    /\ call = [c \in Calls |-> IdleCall]
    /\ lastWrite = [k \in Keys |-> NoWrite]
    /\ res = IdleRes
    /\ req = IdleReq
    /\ comp = IdleComp
    /\ commits = <<>>
    /\ profiles = [u \in Users |-> NoRow]
    /\ userStats = <<>>
    /\ url = <<>>
    /\ run = IdleTrunc

NextTrunc ==
    \/ \E w \in TextWords : TextWord(w) /\ UNCHANGED <<userStats, url>> /\ UNCHANGED serviceVars
    \/ \E ws \in Whitespace : TextSpace(ws) /\ UNCHANGED <<userStats, url>> /\ UNCHANGED serviceVars
    \/ \E maxWords \in 0..MaxBudget : TruncApply(maxWords) /\ UNCHANGED <<userStats, url>> /\ UNCHANGED serviceVars
    \/ TruncReset /\ UNCHANGED <<userStats, url>> /\ UNCHANGED serviceVars

SpecTrunc == InitTrunc /\ [][NextTrunc]_vars

InitMention ==
    /\ redis = [k \in Keys |-> NoEntry]
    /\ now = 0
    /\ ttlOf = [k \in DogpileKeys |-> NoTTL]
    /\ source = 1
    /\ call = [c \in Calls |-> IdleCall]
    /\ lastWrite = [k \in Keys |-> NoWrite]
    /\ res = IdleRes
    /\ req = IdleReq
    /\ comp = IdleComp
    /\ commits = <<>>
    /\ profiles = [u \in Users |-> NoRow]
    /\ userStats = <<>>
    /\ url = <<>>
    /\ run = IdleMention

NextMention ==
    \/ \E piece \in Pieces : MentionText(piece) /\ UNCHANGED <<userStats, url>> /\ UNCHANGED serviceVars
    \/ MentionVisit /\ UNCHANGED <<userStats, url>> /\ UNCHANGED serviceVars
    \/ \E i \in 1..(2 * MaxPieces), t \in Awaited : \E found \in MentionResults[t] :
          MentionHydrate(i, found) /\ UNCHANGED <<userStats, url>> /\ UNCHANGED serviceVars
    \/ MentionDone /\ UNCHANGED <<userStats, url>> /\ UNCHANGED serviceVars
    \/ MentionReset /\ UNCHANGED <<userStats, url>> /\ UNCHANGED serviceVars

SpecMention == InitMention /\ [][NextMention]_vars

InitLinks ==
    /\ redis = [k \in Keys |-> NoEntry]
    /\ now = 0
    /\ ttlOf = [k \in DogpileKeys |-> NoTTL]
    /\ source = 1
    /\ call = [c \in Calls |-> IdleCall]
    /\ lastWrite = [k \in Keys |-> NoWrite]
    /\ res = IdleRes
    /\ req = IdleReq
    /\ comp = IdleComp
    /\ commits = <<>>
    /\ profiles = [u \in Users |-> NoRow]
    /\ userStats = <<>>
    /\ url = <<>>
    /\ run = IdleLinks

NextLinks ==
    \/ \E piece \in MarkdownPieces : LinksText(piece) /\ UNCHANGED <<userStats, url>> /\ UNCHANGED serviceVars
    \/ LinksProcess /\ UNCHANGED <<userStats, url>> /\ UNCHANGED serviceVars
    \/ LinksStage /\ UNCHANGED <<userStats, url>> /\ UNCHANGED serviceVars
    \/ LinksDone /\ UNCHANGED <<userStats, url>> /\ UNCHANGED serviceVars
    \/ LinksReset /\ UNCHANGED <<userStats, url>> /\ UNCHANGED serviceVars

SpecLinks == InitLinks /\ [][NextLinks]_vars

InitProgress ==
    /\ redis = [k \in Keys |-> NoEntry]
    /\ now = 0
    /\ ttlOf = [k \in DogpileKeys |-> NoTTL]
    /\ source = 1
    /\ call = [c \in Calls |-> IdleCall]
    /\ lastWrite = [k \in Keys |-> NoWrite]
    /\ res = IdleRes
    /\ req = IdleReq
    /\ comp = IdleComp
    /\ commits = <<>>
    /\ profiles = [u \in Users |-> NoRow]
    /\ userStats = <<>>
    /\ url = <<>>
    /\ run = IdleProgress

NextProgress ==
    \/ \E d \in ClockDays, offset \in ClockOffsets :
          ProgressNow(d, offset) /\ UNCHANGED <<userStats, url>> /\ UNCHANGED serviceVars
    \/ ProgressRender /\ UNCHANGED <<userStats, url>> /\ UNCHANGED serviceVars

SpecProgress == InitProgress /\ [][NextProgress]_vars

InitStreak ==
    /\ redis = [k \in Keys |-> NoEntry]
    /\ now = 0
    /\ ttlOf = [k \in DogpileKeys |-> NoTTL]
    /\ source = 1
    /\ call = [c \in Calls |-> IdleCall]
    /\ lastWrite = [k \in Keys |-> NoWrite]
    /\ res = IdleRes
    /\ req = IdleReq
    /\ comp = IdleComp
    /\ commits = <<>>
    /\ profiles = [u \in Users |-> NoRow]
    /\ userStats = <<>>
    /\ url = <<>>
    /\ run = IdleStreak

NextStreak ==
    \/ \E at \in Instants : StreakCommit(at) /\ UNCHANGED <<userStats, url>> /\ UNCHANGED serviceVars
    \/ \E timezone \in Timezones, evalAt \in Instants :
          StreakEval(timezone, evalAt) /\ UNCHANGED <<userStats, url>> /\ UNCHANGED serviceVars
    \/ StreakReset /\ UNCHANGED <<userStats, url>> /\ UNCHANGED serviceVars

SpecStreak == InitStreak /\ [][NextStreak]_vars

InitWindow ==
    /\ redis = [k \in Keys |-> NoEntry]
    /\ now = 0
    /\ ttlOf = [k \in DogpileKeys |-> NoTTL]
    /\ source = 1
    /\ call = [c \in Calls |-> IdleCall]
    /\ lastWrite = [k \in Keys |-> NoWrite]
    /\ res = IdleRes
    /\ req = IdleReq
    /\ comp = IdleComp
    /\ commits = <<>>
    /\ profiles = [u \in Users |-> NoRow]
    /\ userStats = <<>>
    /\ url = <<>>
    /\ \E base \in TextWords : run = IdleWindow(base)

NextWindow ==
    \/ \E w \in TextWords : WindowWord(w) /\ UNCHANGED <<userStats, url>> /\ UNCHANGED serviceVars
    \/ \E maxWords \in LongBudgets : WindowApply(maxWords) /\ UNCHANGED <<userStats, url>> /\ UNCHANGED serviceVars
    \/ \E base \in TextWords : WindowReset(base) /\ UNCHANGED <<userStats, url>> /\ UNCHANGED serviceVars

SpecWindow == InitWindow /\ [][NextWindow]_vars

(* ----------------------------- claims: cached() ----------------------- *)
\* The call has got the answer of its cache read.
HasRead(c) == call[c].pc \in {"fetch", "set", "returned", "raised"}
\* The call is past its fetcher.
PastFetch(c) == call[c].pc \in {"set", "returned", "raised"}

\* C1 as stated: a call that STARTS while a completed write of its key is
\* unexpired never invokes compute.
C1_StartedLiveNeverComputes ==
    \A c \in Calls : call[c].liveAtStart => call[c].nCompute = 0

\* C1 (amended): a call whose cache read is served while the last completed
\* write of its key is unexpired returns that cached value without invoking
\* compute; a call whose read is served when no completed write is unexpired
\* (none yet, or the TTL has elapsed) invokes compute, once.  Overlapping
\* calls that all read before any write completed each invoke compute.
C1_ReadLiveNeverComputes ==
    \A c \in Calls :
        /\ (HasRead(c) /\ call[c].seenAtGet # Null) =>
              /\ call[c].pc = "returned"
              /\ call[c].nCompute = 0
              /\ call[c].result = call[c].seenAtGet
        /\ (PastFetch(c) /\ call[c].seenAtGet = Null) => call[c].nCompute = 1

\* C1 witness: one call was served from the cache while an overlapping call,
\* which had missed, has invoked compute and is about to write; time has passed.
C1_Witness ==
    \E c, d \in Calls :
        /\ c # d
        /\ call[c].pc = "returned" /\ call[c].seenAtGet # Null /\ call[c].nCompute = 0
        /\ call[d].pc = "set" /\ call[d].nCompute = 1
        /\ now > 0

\* The entry cached(key, fetcher, ttl) must leave under key when it writes value at time t.
ExpectedEntry(value, ttl, t) ==
    [val |-> value, exp |-> IF ttl = NoTTL THEN NoExp ELSE t + ttl]

C2_Counts ==
    \A c \in Calls :
        /\ call[c].nCompute \in {0, 1} /\ call[c].nSet \in {0, 1}
        /\ (HasRead(c) /\ call[c].existing # Null) =>
              /\ call[c].pc = "returned" /\ call[c].result = call[c].existing
              /\ call[c].nCompute = 0 /\ call[c].nSet = 0
        /\ (call[c].pc = "returned" /\ call[c].existing = Null) =>
              /\ call[c].nCompute = 1 /\ call[c].nSet = 1
              /\ call[c].result = call[c].value /\ call[c].value # Null

C2_Writes ==
    \A c \in Calls :
        /\ (call[c].nSet # call'[c].nSet /\ call'[c].pc # "idle") =>
              /\ call[c].existing = Null /\ call[c].nCompute = 1
              /\ redis'[call[c].key] = ExpectedEntry(call[c].value, call[c].ttl, now)
              /\ call'[c].result = call[c].value
              /\ \A k \in Keys \ {call[c].key} : redis'[k] = redis[k]
        /\ (call[c].pc = "get" /\ call'[c].pc = "returned") =>
              /\ redis' = redis
              /\ call'[c].result = redis[call[c].key].val
              /\ Live(redis[call[c].key], now)
        /\ (call[c].pc = "get" /\ call'[c].pc = "fetch") => ~Live(redis[call[c].key], now)

\* C2: a cached() call that finds no unexpired entry invokes compute exactly
\* once, writes compute's result under its key with expiry ttl and returns that
\* result; a call that finds an unexpired entry returns the stored value and
\* neither invokes compute nor writes.
C2_MissComputesOnceHitReturnsStored == []C2_Counts /\ [][C2_Writes]_vars

\* C2 witness: a call that missed has computed, written an expiring entry and returned.
C2_Witness ==
    \E c \in Calls :
        /\ call[c].pc = "returned" /\ call[c].existing = Null
        /\ call[c].nCompute = 1 /\ call[c].nSet = 1
        /\ redis[call[c].key] = ExpectedEntry(call[c].result, call[c].ttl, now)
        /\ call[c].ttl # NoTTL

(* ----------------------------- claims: resolver ----------------------- *)
\* The external fetch of the lookup in flight has been answered, and failed:
\* a request rejected (network error, timeout) or answered non-success.  For
\* getForumThreads, which sends two requests and keeps whatever succeeded,
\* failing means a rejection of either request or a non-success of both.
FetchFailed ==
    /\ res.pc # "idle" /\ res.nFetch > 0
    /\ IF res.lookup = "threads"
       THEN \/ Rejects(res.r1) \/ Rejects(res.r2)
            \/ (res.r1.o = "nonok" /\ res.r2.o = "nonok")
       ELSE res.r1.o # "ok"

SomeQueryFailed == \E n \in RowStoreQueries : comp.q[n] = "failed"

\* A body that is exactly {error: message}.
IsErrorBody(body, e) == body = <<"error", ErrorMessage[e]>>
\* A body that is a complete payload of endpoint e.
IsFullPayload(body, e) ==
    /\ Len(body) = 2 /\ body[1] = e
    /\ body[2].fields = PayloadFields[e]

\* C4: when a row-store query of the aggregation (stats payload or commit
\* page) fails, the endpoint answers 500 with exactly {error: message}; every
\* 200 response, and every payload written to the cache, carries all fields of
\* its payload: no response carries a partially computed payload.
C4_QueryFailureGivesErrorOnly ==
    /\ SomeQueryFailed =>
          /\ call[Serving].pc = "raised"
          /\ req.pc = "responded" => (req.status = 500 /\ IsErrorBody(req.body, req.endpoint))
    /\ req.pc = "responded" =>
          \/ req.status = 500 /\ IsErrorBody(req.body, req.endpoint)
          \/ req.status = 200 /\ IsFullPayload(req.body, req.endpoint)
    /\ \A e \in Endpoints :
          redis[EndpointKey[e]].val # Null => IsFullPayload(redis[EndpointKey[e]].val, e)

\* C4 witness: the stats endpoint has answered 500 {error} although its commits
\* query had already returned rows when the profiles query failed.
C4_Witness ==
    /\ req.pc = "responded" /\ req.endpoint = "stats"
    /\ req.status = 500 /\ IsErrorBody(req.body, "stats")
    /\ comp.q["commits"] = "ok" /\ comp.q["profiles"] = "failed"

\* The external fetch of item i failed: non-success, network error or timeout.
ItemFetchFailed(i) == comp.items[i].reply.o \in {"nonok", "neterr", "timeout"}

\* The text and attachments a message that was fetched shows in the feed.
ShownContent(body) == IF body.refType = 1 THEN body.snapshot.content ELSE body.content
ShownAttachments(body) ==
    IF body.refType = 1 THEN body.snapshot.attachments ELSE body.attachments

C6_LeaderboardsOnlyPublicProfiles ==
    run.phase = "done" =>
        \A b \in BoardNames : \A i \in 1..Len(run.leaderboards[b]) :
            LET u == run.leaderboards[b][i].odId
            IN  /\ ProfileRow(u, 0) \in run.allProfiles
                /\ ProfileRow(u, 1) \notin run.allProfiles

\* C6 witness: a payload whose leaderboards list a public user while a user
\* with a private profile has more commits than that user and is not listed.
C6_Witness ==
    /\ run.phase = "done"
    /\ Len(run.leaderboards["commits"]) = 1
    /\ \E u \in Users :
          /\ ProfileRow(u, 1) \in run.allProfiles
          /\ Len(userCommitsOf(run.allCommits, u)) > run.leaderboards["commits"][1].totalCommits
          /\ \A b \in BoardNames : \A i \in 1..Len(run.leaderboards[b]) :
                run.leaderboards[b][i].odId # u

\* The users of the array that board b does not list.
Unlisted(b) ==
    {j \in 1..Len(userStats) :
        \A i \in 1..Len(run.leaderboards[b]) : run.leaderboards[b][i].odId # userStats[j].odId}

\* C8: each leaderboard has at most 10 entries (all users when there are
\* fewer), each entry is one user of the array with that user's statistics,
\* no user is listed twice, no unlisted user has a larger value of the
\* board's metric than a listed one, the metric never increases from one
\* rank to the next, and the rank of an entry is its 1-based position.
C8_LeaderboardsAreTopTenInOrder ==
    run.phase = "done" =>
        \A b \in BoardNames :
            LET board == run.leaderboards[b]
                m == Metrics[b]
                n == Len(board)
            IN  /\ n <= 10
                /\ n = Min(10, Len(userStats))
                /\ \A i \in 1..n :
                      /\ board[i].rank = i
                      /\ \E j \in 1..Len(userStats) :
                            /\ userStats[j].odId = board[i].odId
                            /\ userStats[j].totalCommits = board[i].totalCommits
                            /\ userStats[j].totalDays = board[i].totalDays
                            /\ userStats[j].currentStreak = board[i].currentStreak
                      /\ \A k \in 1..(i - 1) : board[k].odId # board[i].odId
                /\ \A j \in Unlisted(b) : \A i \in 1..n : userStats[j][m] <= board[i][m]
                /\ \A i \in 1..(n - 1) : board[i][m] >= board[i + 1][m]

\* C8 witness: twelve users, so every board drops two; the commits board had
\* to reorder the array and the user it drops has fewer commits than rank 10.
C8_Witness ==
    /\ run.phase = "done"
    /\ Len(userStats) = 12
    /\ \A b \in BoardNames : Len(run.leaderboards[b]) = 10
    /\ run.leaderboards["commits"][1].odId # userStats[1].odId
    /\ \E j \in Unlisted("commits") :
          userStats[j].totalCommits < run.leaderboards["commits"][10].totalCommits
    /\ run.leaderboards["days"][1].odId # run.leaderboards["commits"][1].odId

(* ----------------------------- claims: recent feed -------------------- *)
\* The approved rows of the table that are neither private nor explicitly
\* private, and the one of them with exactly k newer ones.
FeedEligible ==
    {commits[j] : j \in {k \in 1..Len(commits) :
        /\ commits[k].approved = 1
        /\ commits[k].is_private = 0
        /\ commits[k].is_explicitly_private = 0}}
Newer(c) == {d \in FeedEligible : d.committed_at > c.committed_at}

\* C7: the recent feed of a stats payload has min(10, n) items for the n
\* feed-eligible commits (is_private = 0 and is_explicitly_private = 0); its
\* i-th item is the commit with exactly i - 1 newer feed-eligible commits,
\* whatever the order in which the enrichments completed; no item is a
\* private or explicitly private commit.
C7_RecentFeedIsNewestEligible ==
    run.phase = "done" =>
        /\ Len(run.recentCommits) = Min(10, Cardinality(FeedEligible))
        /\ \A i \in 1..Len(run.recentCommits) :
              \E c \in FeedEligible :
                  /\ Cardinality(Newer(c)) = i - 1
                  /\ run.recentCommits[i].messageId = c.message_id
                  /\ run.recentCommits[i].committedAt = c.committed_at
        /\ \A i \in 1..Len(run.recentCommits) : \A j \in 1..Len(commits) :
              commits[j].message_id = run.recentCommits[i].messageId =>
                  commits[j].is_private = 0 /\ commits[j].is_explicitly_private = 0

\* C7 witness: a feed of ten items built while the enrichments completed out
\* of order, over a table whose ten newest rows include an explicitly private
\* one, so that the feed reaches back to the eleventh row.
C7_Witness ==
    /\ run.phase = "done"
    /\ run.reordered
    /\ Len(run.recentCommits) = 10
    /\ Len(commits) = 11
    /\ \E j \in 2..11 : commits[j].is_explicitly_private = 1 /\ commits[j].approved = 1
    /\ run.recentCommits[10].messageId = commits[1].message_id

\* C7 witness of the cut: eleven feed-eligible commits, ten items.
C7_CutReached ==
    /\ run.phase = "done"
    /\ Cardinality(FeedEligible) = 11
    /\ Len(run.recentCommits) = 10

(* ----------------------------- claims: pagination --------------------- *)
\* C9: over an unchanged row store with N feed-eligible rows, the page p with
\* limit L has max(0, min(L, N - (p-1)*L)) commits, its i-th commit is the
\* feed-eligible row with exactly (p-1)*L + i - 1 newer ones, and hasMore is
\* true exactly when N > p*L.
C9_PageContentsAndHasMore ==
    (run.phase = "done" /\ ~run.changed) =>
        LET N == Cardinality(FeedEligible)
            p == run.page
            L == run.limit
        IN  /\ Len(run.commits) = Max(0, Min(L, N - (p - 1) * L))
            /\ \A i \in 1..Len(run.commits) :
                  \E c \in FeedEligible :
                      /\ Cardinality(Newer(c)) = (p - 1) * L + i - 1
                      /\ run.commits[i].messageId = c.message_id
            /\ run.hasMore <=> N > p * L

\* C9 witness: five feed-eligible rows and a hidden one, limit 2: page 3 holds
\* the oldest row alone and hasMore is false.
C9_Witness ==
    /\ run.phase = "done" /\ ~run.changed
    /\ run.page = 3 /\ run.limit = 2
    /\ Cardinality(FeedEligible) = 5 /\ Len(commits) = 6
    /\ Len(run.commits) = 1 /\ ~run.hasMore

\* C9 witness of a full page with more behind it.
C9_FullPageReached ==
    /\ run.phase = "done" /\ ~run.changed
    /\ run.page = 2 /\ run.limit = 2
    /\ Cardinality(FeedEligible) = 5
    /\ Len(run.commits) = 2 /\ run.hasMore

(* ----------------------------- claims: parameters --------------------- *)
\* A parameter that is an integer written out: an optional sign and digits.
IsInteger(chars) ==
    LET unsigned == IF chars # <<>> /\ Head(chars) = "-" THEN Tail(chars) ELSE chars
    IN  unsigned # <<>> /\ \A i \in 1..Len(unsigned) : unsigned[i] \in Digits
IntegerOf(chars) ==
    IF Head(chars) = "-" THEN 0 - DecimalValue(Tail(chars)) ELSE DecimalValue(chars)
\* A parameter that does not start with a number at all.
NotANumber(chars) == parseInt(chars).nan
Clamp(n, lo, hi) == Max(lo, Min(hi, n))

\* C10: the effective limit is the requested limit clamped to [1, 50], and 10
\* when the parameter is absent or not a number; the effective page is the
\* requested page clamped to at least 1, and 1 when absent or not a number; no
\* request is rejected for its parameters: each one reaches the fetch and is
\* answered 200, or 500 when the fetch fails.
C10_LimitAndPageClamped ==
    /\ run.phase \in {"fetching", "responded"} =>
          /\ (~url.limit.present \/ url.limit.chars = <<>>) => run.limit = 10
          /\ (url.limit.present /\ IsInteger(url.limit.chars)) =>
                run.limit = Clamp(IntegerOf(url.limit.chars), 1, 50)
          /\ (url.limit.present /\ url.limit.chars # <<>> /\ NotANumber(url.limit.chars)) =>
                run.limit = 10
          /\ (~url.page.present \/ url.page.chars = <<>>) => run.page = 1
          /\ (url.page.present /\ IsInteger(url.page.chars)) =>
                run.page = Max(1, IntegerOf(url.page.chars))
          /\ (url.page.present /\ url.page.chars # <<>> /\ NotANumber(url.page.chars)) =>
                run.page = 1
    /\ run.phase = "responded" => run.status \in {200, 500}

\* The part of C10 that holds: the same statement for every limit but zero.
C10_ExceptLimitZero ==
    /\ run.phase \in {"fetching", "responded"} =>
          /\ (~url.limit.present \/ url.limit.chars = <<>>) => run.limit = 10
          /\ (url.limit.present /\ IsInteger(url.limit.chars)
                /\ IntegerOf(url.limit.chars) # 0) =>
                run.limit = Clamp(IntegerOf(url.limit.chars), 1, 50)
          /\ (url.limit.present /\ url.limit.chars # <<>> /\ NotANumber(url.limit.chars)) =>
                run.limit = 10
          /\ (~url.page.present \/ url.page.chars = <<>>) => run.page = 1
          /\ (url.page.present /\ IsInteger(url.page.chars)) =>
                run.page = Max(1, IntegerOf(url.page.chars))
          /\ (url.page.present /\ url.page.chars # <<>> /\ NotANumber(url.page.chars)) =>
                run.page = 1
          /\ run.limit \in 1..50 /\ run.page >= 1
    /\ run.phase = "responded" => run.status \in {200, 500}

\* limit=0 reaches the fetch with limit 10.
C10_LimitZeroGivesTen ==
    /\ run.phase = "fetching"
    /\ url.limit = [present |-> TRUE, chars |-> <<"0">>]
    /\ run.limit = 10

(* ----------------------------- claims: histogram ---------------------- *)
\* The calendar days of the event window.
EventWindow == EVENT_START..EVENT_END

\* C11: the commitsByDay histogram of a stats payload has one key for each
\* calendar day of the event date range, start and end included, and no other
\* key; every value is an integer >= 0, and a day without commits has value 0.
C11_HistogramKeysAreEventDays ==
    run.phase = "done" =>
        /\ DOMAIN run.commitsByDay = EventWindow
        /\ \A d \in EventWindow :
              /\ run.commitsByDay[d] \in Nat
              /\ (\A i \in 1..Len(run.allCommits) :
                    getCommitDay(run.allCommits[i].committed_at,
                                 timezoneOf(run.allProfiles, run.allCommits[i].user_id)) # d)
                 => run.commitsByDay[d] = 0

\* C11 witness: a histogram built from one commit on the first event day and
\* one after the event: the last day is present with 0 and the day after the
\* event is not a key.
C11_Witness ==
    /\ run.phase = "done"
    /\ Len(run.allCommits) = 2
    /\ run.commitsByDay[EVENT_START] = 1
    /\ run.commitsByDay[EVENT_END] = 0
    /\ \E i \in 1..2 :
          getCommitDay(run.allCommits[i].committed_at,
                       timezoneOf(run.allProfiles, run.allCommits[i].user_id)) = EVENT_END + 1
    /\ (EVENT_END + 1) \notin DOMAIN run.commitsByDay

\* The sum of the values of a histogram.
RECURSIVE SumOver(_, _)
SumOver(byDay, days) ==
    IF days = {} THEN 0
    ELSE LET d == CHOOSE x \in days : TRUE
         IN  byDay[d] + SumOver(byDay, days \ {d})

\* The timezone of a user in the profiles table, the default one without a row.
ZoneOfUser(u) == IF profiles[u] = NoRow THEN DEFAULT_TIMEZONE ELSE profiles[u].timezone
\* The approved rows of the commits table whose day key, in the timezone of the
\* committing user, is a day of the event window.
InWindow ==
    {j \in 1..Len(commits) :
        /\ commits[j].approved = 1
        /\ getCommitDay(commits[j].committed_at, ZoneOfUser(commits[j].user_id)) \in EventWindow}

\* C12: the sum of all commitsByDay values is the number of approved commits,
\* of all users and private or not, whose day key in the committing user's
\* timezone (the default timezone for a user without a profile) lies in the
\* event date range.
C12_HistogramSumIsWindowCount ==
    run.phase = "done" =>
        SumOver(run.commitsByDay, DOMAIN run.commitsByDay) = Cardinality(InWindow)

\* C12 witness: two approved commits; the one posted just before the event in
\* the default timezone, by a user with a private profile in the other
\* timezone, falls on the first event day and is counted; the other one falls
\* after the event and is not.
C12_Witness ==
    /\ run.phase = "done"
    /\ Len(commits) = 2 /\ Len(run.allCommits) = 2
    /\ SumOver(run.commitsByDay, DOMAIN run.commitsByDay) = 1
    /\ \E j \in InWindow :
          /\ commits[j].committed_at = InstantsPerDay * EVENT_START - 1
          /\ profiles[commits[j].user_id] = ZonedProfile(commits[j].user_id, 1, 1)

(* ----------------------------- claims: the aggregation cycle ---------- *)
\* The derived computation of the fetcher has started.
DerivedStarted == comp.phase \in {"items", "done"}
\* Nothing has been derived: no feed commit chosen, no item built, no value.
NothingDerived ==
    /\ comp.feed = <<>> /\ comp.items = <<>>
    /\ call[Serving].pc \notin {"set", "returned"} \/ call[Serving].existing # Null

\* C13: in one aggregation cycle every bulk query of the fetcher (commits,
\* profiles, users, platform stats; page, count, profiles, users) has been
\* issued before any of them is answered; the derived computation starts only
\* when all of them have succeeded; when one of them fails none runs.
C13_QueriesTogetherThenDerive ==
    LET mine == QueriesOf[req.endpoint]
    IN  /\ (\E n \in QueryNames : comp.q[n] \in {"ok", "failed"}) =>
               \A x \in mine : comp.q[x] # "idle" /\ comp.nIssued[x] = 1
        /\ DerivedStarted => \A x \in mine : comp.q[x] = "ok"
        /\ (\E n \in QueryNames : comp.q[n] # "ok" /\ comp.q[n] # "idle") => NothingDerived
        /\ (\E n \in QueryNames : comp.q[n] = "failed") => comp.phase = "failed"

\* C13 witness: the users query of computeStats has failed after the commits
\* query succeeded and while the platform stats are still awaited; the request
\* is answered and nothing was derived.
C13_Witness ==
    /\ req.endpoint = "stats" /\ req.pc = "responded"
    /\ comp.q["commits"] = "ok" /\ comp.q["users"] = "failed"
    /\ comp.q["discord"] = "pending"
    /\ comp.phase = "failed" /\ NothingDerived

\* C13 witness of the other case: every query succeeded and the feed is being
\* enriched.
C13_DerivedReached ==
    /\ comp.phase = "items"
    /\ \A x \in QueriesOf[req.endpoint] : comp.q[x] = "ok"

\* A step re-issues nothing: a query that was answered, with rows or with a
\* failure, is not pending again, and a feed item whose message lookup ended
\* is not looked up again, as long as the invocation lasts.
NoReissue ==
    comp'.phase # "none" =>
        /\ \A n \in QueryNames :
              /\ comp.q[n] \in {"ok", "failed"} => comp'.q[n] = comp.q[n]
              /\ comp'.nIssued[n] >= comp.nIssued[n]
        /\ \A i \in 1..Len(comp.items) :
              comp.items[i].st # "pending" =>
                  (Len(comp'.items) = Len(comp.items) /\ comp'.items[i] = comp.items[i])

\* C14: no retry: within one invocation every row-store query and every
\* platform call is issued at most once, exactly once when the invocation
\* needs it, and is never issued again after a failure, a timeout or a
\* non-success response.
C14_NoRetry ==
    /\ [](/\ \A n \in QueryNames : comp.nIssued[n] <= 1
          /\ \A n \in QueriesOf[req.endpoint] : comp.phase # "none" => comp.nIssued[n] = 1)
    /\ [][NoReissue]_vars

\* C14 witness: a request answered 200 after every query was issued once and
\* the message request of its first feed item timed out.
C14_Witness ==
    /\ req.pc = "responded" /\ req.status = 200 /\ comp.phase = "done"
    /\ \A n \in QueriesOf[req.endpoint] : comp.nIssued[n] = 1
    /\ Len(comp.items) >= 1
    /\ comp.items[1].st = "done" /\ comp.items[1].reply.o = "timeout"

\* C14 witness of a failed query: issued once, failed, answered 500.
C14_FailedOnceReached ==
    /\ req.pc = "responded" /\ req.status = 500
    /\ \E n \in RowStoreQueries : comp.q[n] = "failed" /\ comp.nIssued[n] = 1

(* ----------------------------- claims: smartTruncate ------------------ *)
\* out is the first k words of words joined by single spaces, then "...".
IsCutAt(out, words, k) == out = Join(SubSeq(words, 1, k)) \o <<"...">>

\* C15: smartTruncate(text, maxWords) is the text itself, whitespace included,
\* exactly when the text has at most maxWords words; otherwise it is a prefix
\* of the words of the text, of at most maxWords + 5 words, joined by single
\* spaces and followed by "...".
C15_UnchangedIffWithinBudget ==
    run.phase = "done" =>
        LET words == WordsOf(run.text)
        IN  /\ (run.out = run.text) <=> (Len(words) <= run.maxWords)
            /\ Len(words) > run.maxWords =>
                  \E k \in 0..Min(Len(words), run.maxWords + 5) : IsCutAt(run.out, words, k)

\* C15 witness: a text of more words than the budget, with a whitespace run
\* wider than a space, cut after the sentence that ends maxWords + 5 words in.
C15_Witness ==
    /\ run.phase = "done" /\ run.wide
    /\ Len(WordsOf(run.text)) >= run.maxWords + 5
    /\ IsCutAt(run.out, WordsOf(run.text), run.maxWords + 5)

\* C15 witness of the other case: a text within the budget, with a whitespace
\* run wider than a space, is returned as it is.
C15_UnchangedReached ==
    /\ run.phase = "done" /\ run.wide
    /\ Len(WordsOf(run.text)) = run.maxWords /\ run.maxWords > 0
    /\ run.out = run.text

(* ----------------------------- claims: mentions ----------------------- *)
\* The indices of the elements among the children, ascending.
RECURSIVE ElementPositions(_, _)
ElementPositions(children, from) ==
    IF from > Len(children) THEN <<>>
    ELSE (IF children[from].type = "element" THEN <<from>> ELSE <<>>)
            \o ElementPositions(children, from + 1)

IsToken(piece) == PieceInfo[piece].type # "none"

\* The text a mention token is to show, given what its lookup returned.
ExpectedMentionText(prefix, found) ==
    CASE prefix \in {"@", "@!"} ->
            <<"@", IF found = Null THEN "user"
                   ELSE IF found.global_name # Null THEN found.global_name[1]
                   ELSE found.username[1]>>
      [] prefix = "#" -> <<"#", IF found = Null THEN "channel" ELSE found.name[1]>>
      [] prefix = "@&" -> <<"@", IF found = Null THEN "role" ELSE found.name[1]>>

\* C16: in the output every mention token of the text is an element, in the
\* order of the tokens; a user mention <@id> or <@!id> shows "@" and the global
\* name, else the username, else "user" when the lookup returned nothing; a
\* channel or role mention whose lookup returned nothing shows "#channel" or
\* "@role"; no token is dropped and no element is left empty.
C16_MentionsRenderWithFallback ==
    run.phase = "done" =>
        LET tokens == SelectSeq(run.origText, IsToken)
            at == ElementPositions(run.children, 1)
        IN  /\ Len(at) = Len(tokens)
            /\ \A k \in 1..Len(at) :
                  LET el == run.children[at[k]]
                      info == PieceInfo[tokens[k]]
                  IN  /\ el.tagName # NoTag
                      /\ info.type = "entity" =>
                            /\ el.tagName = "span"
                            /\ el.className[1] = "mention"
                            /\ el.children =
                                  <<TextNode(ExpectedMentionText(info.prefix, run.found[at[k]]))>>

\* C16 witness: a text of three mentions: a user without a global name, a user
\* whose lookup returned nothing, and a channel whose lookup returned nothing.
C16_Witness ==
    /\ run.phase = "done"
    /\ run.origText = <<"<@1>", "<@!1>", "<#2>">>
    /\ run.found[1] # Null /\ run.found[1].global_name = Null
    /\ run.found[2] = Null /\ run.found[3] = Null
    /\ run.children[2].children = <<TextNode(<<"@", "user">>)>>
    /\ run.children[3].children = <<TextNode(<<"#", "channel">>)>>

(* ----------------------------- claims: links -------------------------- *)
\* The place of a stage in the processor.
StageIndex(name) == CHOOSE i \in 1..Len(markdownProcessor) : markdownProcessor[i] = name

IsAnchorTag(token) == IF token.type = "open" THEN token.tagName = "a" ELSE FALSE
IsSafeAnchor(a) ==
    /\ a.target = "_blank"
    /\ {"nofollow", "noopener", "noreferrer"} \subseteq {a.rel[i] : i \in 1..Len(a.rel)}

\* C17: in the output of the whole pipeline every a element, from link syntax,
\* from a bare URL or rewritten to a badge, has target=_blank and a rel with
\* nofollow, noopener and noreferrer, and no link of the text is lost; the
\* link-attribute stage comes after autolinking and after badge rewriting.
C17_EveryAnchorIsSafe ==
    /\ StageIndex("rehypeLinkAttributes") > StageIndex("remarkAutolink")
    /\ StageIndex("rehypeLinkAttributes") > StageIndex("rehypeGitLinks")
    /\ run.phase = "done" =>
          LET anchors == SelectSeq(run.tree, IsAnchorTag)
              links == SelectSeq(run.markdown, LAMBDA p : p.md # "text")
          IN  /\ Len(anchors) = Len(links)
              /\ \A i \in 1..Len(anchors) :
                    anchors[i].href = links[i].href /\ IsSafeAnchor(anchors[i])

\* C17 witness: a text with a link in link syntax and a bare commit URL that
\* became a badge, both written out with the attributes.
C17_Witness ==
    /\ run.phase = "done"
    /\ run.markdown = <<[md |-> "link", text |-> CustomText, href |-> PageUrl],
                        [md |-> "url", href |-> CommitUrl("github.com", Sha40)]>>
    /\ LET anchors == SelectSeq(run.tree, IsAnchorTag)
       IN  /\ Len(anchors) = 2
           /\ anchors[1].className = <<>> /\ IsSafeAnchor(anchors[1])
           /\ anchors[2].className = <<"github-commit">> /\ IsSafeAnchor(anchors[2])

\* C17 witness of the third origin: a bare URL that is no Git link.
C17_AutolinkReached ==
    /\ run.phase = "done"
    /\ run.markdown = <<[md |-> "url", href |-> PageUrl]>>
    /\ \E i \in 1..Len(run.tree) : IsAnchorTag(run.tree[i]) /\ IsSafeAnchor(run.tree[i])

\* The texts of the github-sha spans of an output, in order.
RECURSIVE ShaTexts(_)
ShaTexts(tokens) ==
    IF Len(tokens) < 2 THEN <<>>
    ELSE (IF Head(tokens).type = "open" /\ Head(tokens).className = <<"github-sha">>
          THEN <<tokens[2].value>> ELSE <<>>) \o ShaTexts(Tail(tokens))

\* A 40-character hex SHA, and a revision as a badge is to show it.
IsFullSha(rev) == Len(rev) = SHA_LENGTH /\ IsHex(rev)
ShownRev(rev) == IF IsFullSha(rev) THEN SubSeq(rev, 1, ABBREV_LENGTH) ELSE rev

\* The links of a text that become commit or compare badges.
IsRevLink(piece) ==
    IF piece.md = "url"
    THEN \/ piece.href.shape = "compare"
         \/ (IF piece.href.shape = "commit" THEN IsHex(piece.href.tail) ELSE FALSE)
    ELSE FALSE
ShownRevs(href) ==
    IF href.shape = "commit" THEN ShownRev(href.tail)
    ELSE ShownRev(href.from) \o href.dots \o ShownRev(href.to)

\* C18: in a commit or compare badge a revision is cut to its first 7
\* characters exactly when it is a 40-character hex SHA; any other revision (a
\* short SHA, a branch name, a longer hex string) is shown as it is.
C18_CutIffFullSha ==
    run.phase = "done" =>
        LET links == SelectSeq(run.markdown, IsRevLink)
        IN  ShaTexts(run.tree) = [i \in 1..Len(links) |-> ShownRevs(links[i].href)]

\* The commit badge of a 41-character hex revision shows 7 characters of it.
C18_LongerHexIsCut ==
    /\ run.phase = "done"
    /\ run.markdown = <<[md |-> "url", href |-> CommitUrl("github.com", Sha41)]>>
    /\ ShaTexts(run.tree) = <<SubSeq(Sha41, 1, ABBREV_LENGTH)>>

\* The compare badge of main..rel-<sha> shows the branch rel-<sha> as "rel-012".
C18_BranchIsCut ==
    /\ run.phase = "done"
    /\ run.markdown = <<[md |-> "url", href |-> CompareUrl(Branch, TwoDots, BranchWithSha)]>>
    /\ ShaTexts(run.tree) = <<Branch \o TwoDots \o SubSeq(BranchWithSha, 1, ABBREV_LENGTH)>>

\* The compare badge of <sha>...main shows two dots: the pattern takes the
\* first dot into the revision, which is cut with it.
C18_ThreeDotsLoseOne ==
    /\ run.phase = "done"
    /\ run.markdown = <<[md |-> "url", href |-> CompareUrl(Sha40, ThreeDots, Branch)]>>
    /\ ShaTexts(run.tree) = <<SubSeq(Sha40, 1, ABBREV_LENGTH) \o TwoDots \o Branch>>

\* What the badges do show for the other revisions: the tail of a commit or
\* compare link without 40 hex characters in a row is shown as it is.
C18_ShortRevsVerbatim ==
    run.phase = "done" =>
        LET links == SelectSeq(run.markdown, IsRevLink)
            texts == ShaTexts(run.tree)
        IN  /\ Len(texts) = Len(links)
            /\ \A i \in 1..Len(links) :
                  LET href == links[i].href
                  IN  ~MatchesShaPattern(href.tail) => texts[i] = href.tail

(* ----------------------------- claims: event progress ----------------- *)
\* The day of the event an instant falls in, counted from 1, for any instant.
DayNumber(elapsed) ==
    CHOOSE n \in (0 - MaxDaysOut - 1)..(totalDays + MaxDaysOut + 1) :
        (n - 1) * msPerDay <= elapsed /\ elapsed < n * msPerDay

\* C19: for every instant, currentDay is floor((now - eventStart) / 1 day) + 1
\* clamped to [1, 20] and daysRemaining is max(0, 20 - currentDay); so
\* 1 <= currentDay <= 20, 0 <= daysRemaining <= 19 and currentDay +
\* daysRemaining = 20, before the event start and after its end as well.
C19_ProgressClamped ==
    run.phase = "rendered" =>
        LET n == DayNumber(run.elapsed)
        IN  /\ run.currentDay = (IF n < 1 THEN 1 ELSE IF n > 20 THEN 20 ELSE n)
            /\ run.daysRemaining = (IF 20 - run.currentDay < 0 THEN 0 ELSE 20 - run.currentDay)
            /\ 1 <= run.currentDay /\ run.currentDay <= 20
            /\ 0 <= run.daysRemaining /\ run.daysRemaining <= 19
            /\ run.currentDay + run.daysRemaining = 20

\* C19 witness: the page rendered in the last millisecond before the event
\* starts shows day 1 and 19 days remaining.
C19_Witness ==
    /\ run.phase = "rendered" /\ run.elapsed = -1
    /\ run.currentDay = 1 /\ run.daysRemaining = 19

\* C19 witness of the other end: after the last day, day 20 and 0 remaining.
C19_AfterEndReached ==
    /\ run.phase = "rendered" /\ run.elapsed >= totalDays * msPerDay
    /\ run.currentDay = 20 /\ run.daysRemaining = 0

(* ----------------------------- claims: user statistics ---------------- *)
\* C20: for every list of commit instants, timezone and evaluation time, the
\* statistics of a user have totalDays <= totalCommits and currentStreak <=
\* longestStreak; with no commits totalDays, currentStreak and longestStreak
\* are all 0.
C20_DaysAndStreaksBounded ==
    run.phase = "done" =>
        /\ run.entry.totalCommits = Len(run.timestamps)
        /\ run.entry.totalDays <= run.entry.totalCommits
        /\ run.entry.currentStreak <= run.entry.longestStreak
        /\ run.timestamps = <<>> =>
              /\ run.entry.totalDays = 0
              /\ run.entry.currentStreak = 0
              /\ run.entry.longestStreak = 0

\* C20 witness: three commits given out of order, two of them on one day, make
\* a streak of two days that is still current in the user's timezone.
C20_Witness ==
    /\ run.phase = "done" /\ Len(run.timestamps) = 3
    /\ run.timestamps[1] > run.timestamps[2]
    /\ run.timezone # DEFAULT_TIMEZONE
    /\ run.entry.totalDays = 2 /\ run.entry.totalCommits = 3
    /\ run.entry.currentStreak = 2 /\ run.entry.longestStreak = 2

\* C20 witness of the other cases: a user without commits, and a streak that
\* is over.
C20_NoCommitsReached ==
    /\ run.phase = "done" /\ run.timestamps = <<>>
    /\ run.entry.totalDays = 0 /\ run.entry.longestStreak = 0
C20_StreakOverReached ==
    /\ run.phase = "done"
    /\ run.entry.currentStreak = 0 /\ run.entry.longestStreak = 2

\* The active days of the user of the run, in the timezone of the evaluation.
ActiveDays == {(run.timestamps[i] + run.timezone) \div InstantsPerDay : i \in DOMAIN run.timestamps}
EvalDay == (run.evalAt + run.timezone) \div InstantsPerDay
\* n consecutive days ending at day d are all active, and the day before is not.
IsRunEnding(days, d, n) == (\A x \in (d - n + 1)..d : x \in days) /\ (d - n) \notin days

\* C21: streak recency: commits on exactly the days D, D+1, D+2 give
\* currentStreak = longestStreak = 3 and totalDays = 3 when today is D+2, and
\* currentStreak = 0 with longestStreak = 3 when today is D+5; in general
\* currentStreak is 0 when the most recent active day is neither today nor
\* yesterday in the user's timezone, and else the length of the run of
\* consecutive days that ends at the most recent active day.
C21_StreakRecency ==
    (run.phase = "done" /\ run.timestamps # <<>>) =>
        LET days == ActiveDays
            last == CHOOSE d \in days : \A x \in days : x <= d
            first == CHOOSE d \in days : \A x \in days : d <= x
            three == Cardinality(days) = 3 /\ last = first + 2
        IN  /\ last \notin {EvalDay, EvalDay - 1} => run.entry.currentStreak = 0
            /\ last \in {EvalDay, EvalDay - 1} =>
                  IsRunEnding(days, last, run.entry.currentStreak)
            /\ (three /\ EvalDay = first + 2) =>
                  /\ run.entry.currentStreak = 3 /\ run.entry.longestStreak = 3
                  /\ run.entry.totalDays = 3
            /\ (three /\ EvalDay = first + 5) =>
                  run.entry.currentStreak = 0 /\ run.entry.longestStreak = 3

\* C21 witness: commits on the days 0, 1 and 2, evaluated on day 5.
C21_Witness ==
    /\ run.phase = "done" /\ ActiveDays = {0, 1, 2} /\ EvalDay = 5
    /\ run.entry.currentStreak = 0 /\ run.entry.longestStreak = 3

\* C21 witness of the running streak: the same days, evaluated on day 2, and
\* on the day after in a timezone other than the default.
C21_RunningReached ==
    /\ run.phase = "done" /\ ActiveDays = {0, 1, 2} /\ EvalDay = 2
    /\ run.entry.currentStreak = 3 /\ run.entry.totalDays = 3
C21_YesterdayReached ==
    /\ run.phase = "done" /\ run.timezone # DEFAULT_TIMEZONE
    /\ ActiveDays = {1, 2} /\ EvalDay = 3 /\ run.entry.currentStreak = 2

(* ----------------------------- claims: where smartTruncate cuts ------- *)
\* The 0-based indices of the words of the window that end a sentence.
BoundariesInWindow(words, maxWords) ==
    {i \in 0..(Len(words) - 1) :
        /\ i >= maxWords - 10
        /\ i < (IF Len(words) < maxWords + 5 THEN Len(words) ELSE maxWords + 5)
        /\ WordInfo[words[i + 1]].ends}
Least(S) == CHOOSE x \in S : \A y \in S : x <= y
Greatest(S) == CHOOSE x \in S : \A y \in S : y <= x

\* C22: when the text has more than maxWords words and a word of the window
\* [maxWords - 10, min(wordCount, maxWords + 5)) ends a sentence, the text is
\* cut right after such a word: the earliest one at index >= maxWords - 5 if
\* there is one, else the last one before index maxWords - 5.
C22_CutsAtSentenceBoundary ==
    run.phase = "done" =>
        LET found == BoundariesInWindow(run.words, run.maxWords)
            late == {i \in found : i >= run.maxWords - 5}
            cut == IF late # {} THEN Least(late) ELSE Greatest(found)
        IN  (Len(run.words) > run.maxWords /\ found # {}) =>
                /\ IsCutAt(run.out, run.words, cut + 1)
                /\ WordInfo[run.words[cut + 1]].ends

\* C22 witness: with a budget of 11 words, sentences end at the words of index
\* 2 and 4 only, both before index 6: the text is cut after the later one.
C22_Witness ==
    /\ run.phase = "done" /\ run.maxWords = 11 /\ Len(run.words) = 12
    /\ BoundariesInWindow(run.words, run.maxWords) = {2, 4}
    /\ IsCutAt(run.out, run.words, 5)

\* C22 witnesses of the other cases: the earliest boundary at or after index
\* maxWords - 5 wins over an earlier and over a later one; a boundary before
\* the window or after it is not used.
C22_EarliestLateReached ==
    /\ run.phase = "done" /\ run.maxWords = 6 /\ Len(run.words) = 12
    /\ BoundariesInWindow(run.words, run.maxWords) = {0, 3}
    /\ IsCutAt(run.out, run.words, 4)
C22_OutsideWindowReached ==
    /\ run.phase = "done" /\ run.maxWords = 11 /\ Len(run.words) = 12
    /\ WordInfo[run.words[1]].ends
    /\ BoundariesInWindow(run.words, run.maxWords) = {}

\* The words the walk back examines, by their number in the text: the last
\* min(10, maxWords) words of the budget.
Examined(maxWords) == {k \in 1..maxWords : k > maxWords - 10}
IsStopWord(w) == WordInfo[w].norm \in AWKWARD_END_WORDS

C23_WalkBackReached ==
    /\ run.phase = "done" /\ run.maxWords = 6 /\ Len(run.words) = 12
    /\ BoundariesInWindow(run.words, run.maxWords) = {}
    /\ IsStopWord(run.words[5]) /\ IsStopWord(run.words[6]) /\ ~IsStopWord(run.words[4])
    /\ IsCutAt(run.out, run.words, 4)

(* ----------------------------- claims: mention lookups ---------------- *)
\* The children that are elements of mentions with a lookup.
AwaitedAt ==
    {i \in 1..Len(run.mentions) :
        IF run.mentions[i] = Null THEN FALSE ELSE run.mentions[i].type \in Awaited}
IsPopulated(el) == el.tagName # NoTag /\ el.children # <<>>

\* C24: the lookups of all k mention tokens of a document are started before
\* any of them is awaited, none waits for another to complete, and the
\* substitution stage ends only when all k have completed: the next stage sees
\* no mention element that is not populated.
C24_LookupsBatchedAndAwaited ==
    /\ run.phase = "hydrating" =>
          /\ Len(SelectSeq(run.origText, LAMBDA p : PieceInfo[p].type = "entity"))
                = Cardinality(AwaitedAt)
          /\ \A i \in AwaitedAt :
                \/ i \in run.promises /\ run.children[i] = EmptyElement
                \/ i \notin run.promises /\ IsPopulated(run.children[i])
          /\ \A i \in run.promises : ENABLED MentionHydrate(i, Null)
    /\ run.phase = "done" =>
          /\ run.promises = {}
          /\ \A i \in AwaitedAt : IsPopulated(run.children[i])

\* C24 witness: of three mentions the lookup of the last has completed while
\* the two before it are still pending.
C24_Witness ==
    /\ run.phase = "hydrating"
    /\ AwaitedAt = {1, 2, 3} /\ run.promises = {1, 2}
    /\ IsPopulated(run.children[3])

\* C24 witness of the end of the stage: three mentions, all populated.
C24_AllDoneReached ==
    /\ run.phase = "done" /\ AwaitedAt = {1, 2, 3}
    /\ \A i \in AwaitedAt : IsPopulated(run.children[i])

(* ----------------------------- claims: badge rewriting ---------------- *)
\* The href has one of the four shapes: commit, compare, issue/pull, repository.
HasGitShape(href) ==
    \/ href.shape \in {"pull", "repo"}
    \/ (IF href.shape = "commit" THEN IsHex(href.tail) ELSE FALSE)
    \/ (IF href.shape = "compare"
        THEN \E k \in 1..(Len(href.tail) - 3) : href.tail[k + 1] = "." /\ href.tail[k + 2] = "."
        ELSE FALSE)

\* An a element with a non-empty href and one child, a text equal to the href.
IsPlainLinkOfItself(node) ==
    IF IsAnchor(node)
    THEN /\ node.href # NoHref
         /\ Len(node.children) = 1
         /\ (IF Len(node.children) = 1
             THEN node.children[1].type = "text"
                  /\ (IF node.children[1].type = "text"
                      THEN node.children[1].value = node.href ELSE FALSE)
             ELSE FALSE)
    ELSE FALSE

\* C25: the badge stage changes an element only if it is an a element with a
\* string href and exactly one child, a text node equal to the href, whose
\* href has one of the four shapes; every other element stays as it is (custom
\* text, several children, no href, another href), and the href of a rewritten
\* a element stays the same.
C25_BadgeStageFrame ==
    [][(run.phase = "stages" /\ run'.phase = "stages"
            /\ run'.stage = StageIndex("rehypeGitLinks")) =>
          /\ Len(run'.tree) = Len(run.tree)
          /\ \A i \in 1..Len(run.tree) :
                run'.tree[i] # run.tree[i] =>
                    /\ IsPlainLinkOfItself(run.tree[i])
                    /\ HasGitShape(run.tree[i].href)
                    /\ run'.tree[i].href = run.tree[i].href]_vars

\* C25 witness: after the badge stage, of two links to one pull request the
\* one whose text is in bold is as before, and the bare URL is a badge with
\* the same href.
C25_Witness ==
    /\ run.phase = "stages" /\ run.stage = StageIndex("rehypeGitLinks")
    /\ run.markdown = <<[md |-> "strong", text |-> PullUrl, href |-> PullUrl],
                        [md |-> "url", href |-> PullUrl]>>
    /\ run.tree[1] = Anchor(PullUrl, <<Strong(PullUrl)>>)
    /\ run.tree[2].className = <<"github-commit">> /\ run.tree[2].href = PullUrl

\* C25 witnesses of the other links left alone.
C25_CustomTextReached ==
    /\ run.phase = "stages" /\ run.stage = StageIndex("rehypeGitLinks")
    /\ run.markdown = <<[md |-> "link", text |-> CustomText, href |-> PullUrl],
                        [md |-> "mixed", text |-> PullUrl, href |-> PullUrl]>>
    /\ run.tree[1] = Anchor(PullUrl, <<TextNode(CustomText)>>)
    /\ run.tree[2] = Anchor(PullUrl, <<Strong(PullUrl), TextNode(PullUrl)>>)
C25_OtherHrefReached ==
    /\ run.phase = "stages" /\ run.stage = StageIndex("rehypeGitLinks")
    /\ run.markdown = <<[md |-> "link", text |-> CustomText, href |-> NoHref],
                        [md |-> "url", href |-> CommitUrl("github.com", Branch)]>>
    /\ run.tree[1] = Anchor(NoHref, <<TextNode(CustomText)>>)
    /\ run.tree[2] = Anchor(CommitUrl("github.com", Branch),
                            <<TextNode(CommitUrl("github.com", Branch))>>)

(* ----------------------------- claims: failures and the cache --------- *)
\* C26: failures are never cached: a resolver lookup whose request failed,
\* timed out or was answered non-success (for getForumThreads: both requests
\* non-success) writes nothing to the cache for its key, neither does it reach
\* the write, so the next call for the key sends the request again.
C26_FailuresNeverCached ==
    FetchFailed => (res.pc # "set" /\ res.nSet = 0)

\* getForumThreads has written [] to the cache after both its requests were
\* answered non-success, and the entry is live.
C26_EmptyThreadsCached ==
    /\ res.pc = "returned" /\ res.lookup = "threads" /\ res.nSet = 1
    /\ res.r1.o = "nonok" /\ res.r2.o = "nonok"
    /\ cacheGet(ResolverKey["threads"]) = <<"threads", {}>>

\* The lookups with one request cache nothing after a failure, and
\* getForumThreads caches nothing after a rejected request.
C26_SingleRequestFailuresNotCached ==
    (FetchFailed /\ (res.lookup # "threads" \/ Rejects(res.r1) \/ Rejects(res.r2))) =>
        (res.pc # "set" /\ res.nSet = 0)

\* A cached() call whose compute raised has written nothing.
C26_RaisedComputeWritesNothing ==
    \A c \in Calls : call[c].pc = "raised" => call[c].nSet = 0


(* ----------------------------- claims: overlapping cached() calls ----- *)
\* Calls c and d overlapped on one key: both missed, both computed, and both
\* writes have completed.
BothMissedAndWrote(c, d) ==
    /\ c # d
    /\ call[c].pc = "returned" /\ call[d].pc = "returned"
    /\ call[c].key = call[d].key
    /\ call[c].existing = Null /\ call[d].existing = Null
    /\ call[c].nSet = 1 /\ call[d].nSet = 1

\* The row-store state a computed value was computed from.
VersionOf(value) == value[2]

\* C27 as stated: after two overlapping calls that both missed have written,
\* the cache holds the value computed from the more recent row-store state.
C27_NewerComputeWins ==
    \A c, d \in Calls :
        (BothMissedAndWrote(c, d) /\ VersionOf(call[c].value) < VersionOf(call[d].value)) =>
            redis[call[d].key].val = call[d].value

\* C27 (amended): when two overlapping cached(k, compute, ttl) calls both miss,
\* the value left in the cache after both writes complete is the one written
\* last, with the expiry of that write, whichever compute it came from: until
\* another call writes it is the value of the one of the two calls that wrote
\* last, and when the row store changed between the computes it can be the one
\* computed from the older state, which later hits are served until its TTL
\* elapses although an earlier caller was already given the newer one.
C27_LastWriteWins ==
    \A c, d \in Calls :
        BothMissedAndWrote(c, d) =>
            LET k == call[c].key
                w == lastWrite[k]
            IN  /\ redis[k] = ExpectedEntry(w.val, w.ttl, w.at)
                /\ w.by \in {c, d} =>
                      /\ w.val = call[w.by].value /\ w.ttl = call[w.by].ttl
                      /\ VersionOf(w.val) <= source

\* C27 witness: of two overlapping calls that both missed, the one that
\* computed from the older row-store state wrote last; its value is what an
\* unexpired, expiring entry now serves, and the other caller has the newer one.
C27_Witness ==
    \E c, d \in Calls :
        /\ BothMissedAndWrote(c, d)
        /\ VersionOf(call[c].value) < VersionOf(call[d].value)
        /\ call[d].result = call[d].value
        /\ lastWrite[call[c].key].by = c
        /\ cacheGet(call[c].key) = call[c].value
        /\ redis[call[c].key].exp # NoExp

\* Both writes done with the newer value left in the cache.
C27_NewerLeftReached ==
    \E c, d \in Calls :
        /\ BothMissedAndWrote(c, d)
        /\ VersionOf(call[c].value) < VersionOf(call[d].value)
        /\ cacheGet(call[c].key) = call[d].value


(* ----------------------------- claims: privacy of the feed ------------ *)
\* C28: no commit of a user whose profile is marked private appears in the
\* recent feed: the user of every feed item has a profile whose privacy flag
\* is false, whatever the privacy flags of the commit rows are.
C28_FeedUsersArePublic ==
    run.phase = "done" =>
        \A i \in 1..Len(run.recentCommits) :
            run.recentCommits[i].odId \in publicUserIds(run.allProfiles)

\* The feed shows a commit of a user whose profile, as this computation read
\* it, is private, while the leaderboards leave that user out.
C28_PrivateUserInFeed ==
    /\ run.phase = "done"
    /\ \E i \in 1..Len(run.recentCommits) :
          LET u == run.recentCommits[i].odId
          IN  /\ ProfileRow(u, 1) \in run.allProfiles
              /\ \A b \in BoardNames : \A j \in 1..Len(run.leaderboards[b]) :
                    run.leaderboards[b][j].odId # u

\* What the feed does follow is the flags of the commit rows: no commit row
\* that is private or explicitly private is shown.
C28_FeedFollowsCommitFlags ==
    run.phase = "done" =>
        \A i \in 1..Len(run.recentCommits) :
            \E j \in 1..Len(run.allCommits) :
                /\ RecentItem(run.allCommits[j]) = run.recentCommits[i]
                /\ run.allCommits[j].is_private = 0
                /\ run.allCommits[j].is_explicitly_private = 0


(* ----------------------------- claims: pagination under inserts ------- *)
\* The pagination fields of the response agree with each other.
PaginationAgrees ==
    /\ run.hasMore <=> run.total > run.page * run.limit
    /\ Len(run.commits) <= Max(0, run.total - PageOffset(run.page, run.limit))

\* C29: in every commit-page response hasMore is true if and only if
\* total > page*limit and commits.length <= max(0, total - (page-1)*limit),
\* also when commits are inserted while the page query and the count query of
\* the request are in flight.
C29_PaginationFieldsAgree == run.phase = "done" => PaginationAgrees

\* A response whose count query was answered before a commit was inserted and
\* whose page query was answered after: hasMore is true with total = page*limit.
C29_CountBeforeInsertReached ==
    /\ run.phase = "done" /\ run.changed
    /\ run.page = 1 /\ run.limit = 1
    /\ run.total = 1 /\ run.hasMore /\ Len(run.commits) = 1

\* The other order: the page query was answered before the insert, so the page
\* is short of what total announces and hasMore is false with total > page*limit.
C29_RowsBeforeInsertReached ==
    /\ run.phase = "done" /\ run.changed
    /\ run.page = 1 /\ run.limit = 1
    /\ run.total = 2 /\ ~run.hasMore /\ Len(run.commits) = 1

\* When no commit is inserted while the request runs, the fields agree.
C29_AgreeWhenUnchanged == (run.phase = "done" /\ ~run.changed) => PaginationAgrees


(* ----------------------------- claims: commit total and histogram ----- *)
\* The commits computeStats read whose day key, in the timezone of the
\* committing user, is not a day of the event window.
OutsideWindow ==
    {i \in 1..Len(run.allCommits) :
        getCommitDay(run.allCommits[i].committed_at,
                     timezoneOf(run.allProfiles, run.allCommits[i].user_id)) \notin EventWindow}

HistogramSum == SumOver(run.commitsByDay, DOMAIN run.commitsByDay)

\* C30 as stated: in every stats payload stats.totalCommits equals the sum of
\* all commitsByDay values, also with commits whose day key falls before the
\* event start or after the event end.
C30_TotalIsHistogramSum == run.phase = "done" => run.totalCommits = HistogramSum

\* C30 (amended): in every stats payload stats.totalCommits equals the sum of
\* all commitsByDay values plus the number of approved commits whose day key,
\* in the committing user's timezone, falls before the event start or after
\* the event end; the two are equal exactly when no approved commit falls
\* outside the event date range.
C30_TotalIsSumPlusOutside ==
    run.phase = "done" =>
        /\ run.totalCommits = HistogramSum + Cardinality(OutsideWindow)
        /\ run.totalCommits = HistogramSum <=> OutsideWindow = {}

\* C30 witness: two approved commits, one on an event day and one before the
\* event start: the total is 2 and the histogram sums to 1.
C30_Witness ==
    /\ run.phase = "done"
    /\ run.totalCommits = 2 /\ HistogramSum = 1
    /\ \E i \in OutsideWindow :
          getCommitDay(run.allCommits[i].committed_at,
                       timezoneOf(run.allProfiles, run.allCommits[i].user_id)) < EVENT_START

\* Every commit inside the window: the total is the sum.
C30_AllInsideReached ==
    /\ run.phase = "done"
    /\ run.totalCommits = 2 /\ HistogramSum = 2 /\ OutsideWindow = {}

====
